---------------------------- MODULE Spec2Model ----------------------------
(***************************************************************************)
(* A model of specificproxy: the rate-limiter algorithms and store of      *)
(* src/ratelimit/ratelimit.go, the permitted-address collaborator of       *)
(* src/unnamed/part_000 (package config) and the proxy dispatcher and      *)
(* CONNECT tunnel of src/main.go (package http_server).                    *)
(*                                                                         *)
(* Time is time.Now() in whole seconds.  The module holds several          *)
(* specifications over one set of variables:                               *)
(*   SpecLimiter  one limiter, Allow() called by concurrent requests       *)
(*   Spec         the store: GetOrCreate calls racing the sweep            *)
(*   SpecConnect  one CONNECT tunnel handler and its two copy tasks        *)
(*   SpecProxy    handleProxy and the handler it calls, request after      *)
(*                request, as the host's addresses change                  *)
(*   SpecGate     handleProxy under rate-limited requests served by        *)
(*                concurrent goroutines, as time passes                    *)
(*   SpecKeys     GetOrCreate calls that differ in one component each      *)
(*   SpecDirective  handleProxy under every shape of rate-limit directive  *)
(*   SpecForward  handleHTTPProxy: the headers of one forwarded request    *)
(*   SpecStop     the store and Stop, under fair scheduling                *)
(*   SpecTunnel   the CONNECT tunnel, under fair scheduling                *)
(*   SpecLive     GetOrCreate, Len and the sweeps, under fair scheduling   *)
(***************************************************************************)
EXTENDS Integers, Sequences, FiniteSets, TLC

VARIABLES
    clock,       \* time.Now(), seconds
    \* ---- one limiter under concurrent Allow() (SpecLimiter)
    lim,         \* the limiter object
    limMu,       \* its mutex: 0 when free, else the caller holding it
    limPc,       \* caller -> [pc, now, seen]: its place in Allow(), the
                 \* clock and the limiter fields it has read
    limLog,      \* the Allow() results so far: <<[ok, at, win]>>
    fused,       \* the build: TRUE when the compiler fuses x*y + z into one
                 \* operation, rounded once (arm64, ppc64, s390x, riscv64,
                 \* amd64 v3), FALSE when it multiplies and adds apart
    \* ---- the store (Spec; SpecProxy and SpecGate use its map)
    limiters,    \* Store.limiters: key -> [limiter, lastUsed, ttl]
    objs,        \* the limiter objects ever constructed, by identity
    mu,          \* Store.mu: [readers, writer]
    frames,      \* goroutine -> its GetOrCreate or Len frame
    numCalls,    \* GetOrCreate and Len calls begun so far
    sweep,       \* the frame of Store.cleanup
    loop,        \* cleanupLoop: "select" | "cleanup" | "exited"
    tickPending, \* a tick waits in ticker.C
    stopCh,      \* "open" | "closed"
    created,     \* history: key -> limiters constructed for it
    evicted,     \* history: the keys a sweep has removed an entry of
    returned,    \* history: the <<key, limiter, how, components>> GetOrCreate returned
    lastHit,     \* history: key -> the latest time at which a call found
                 \* the entry the key maps to, its ttl not yet elapsed
    \* ---- one CONNECT tunnel (SpecConnect)
    conn,        \* the frame of handleConnect
    copies,      \* the two copy goroutines: direction -> [pc, relayed]
    orphans,     \* the copy goroutines of earlier handleConnect calls that
                 \* are still alive, their handler having returned:
                 \* direction -> [running, copied], how many stand where
    \* ---- the dispatcher (SpecProxy, SpecGate)
    hsConfig,    \* HTTPServer.config: the configuration main() has loaded
    net,         \* the host's interfaces, as package net reports them
    numReqs,     \* requests handleProxy has been called with so far
    last,        \* goroutine -> the request it serves or served last, how far
                 \* handleProxy is with it and what it did with it
    allowLog,    \* history: limiter -> when it was made, and what became of
                 \* the requests that called its Allow()
    \* ---- one forwarded request (SpecForward)
    fwd          \* the frame of handleHTTPProxy and the header maps it uses

limVars   == <<lim, limMu, limPc, limLog, fused>>
storeVars == <<limiters, objs, mu, frames, numCalls, sweep, loop, tickPending, stopCh,
               created, evicted, returned, lastHit>>
connVars  == <<conn, copies, orphans>>
proxyVars == <<hsConfig, net, numReqs, last, allowLog, fwd>>
vars      == <<clock, limVars, storeVars, connVars, proxyVars>>

(***************************************************************************)
(* Bounds of the model.                                                    *)
(***************************************************************************)
MaxTime    == 6   \* the clock of one limiter stops here
MaxStoreTime == 3 \* the clock of the store stops here
MaxGateTime == 2  \* the clock of the dispatcher stops here
MaxRate    == 2   \* rates are -1 .. MaxRate
MaxPeriod  == 6   \* periods are -1 .. MaxPeriod
NumCallers == 2   \* concurrent callers of Allow() on one limiter
NumProcs   == 2   \* concurrent callers of GetOrCreate
MaxCalls   == 2   \* GetOrCreate calls made on the store
MaxTTL     == 2   \* the ttl a directive asks for; 0 asks for the default
MaxRelay   == 1   \* chunks one copy task relays before the model stops counting
MaxReqs    == 2   \* requests handleProxy serves, of any kind
MaxLines   == 3   \* header lines of one upstream response
MaxGated   == MaxRate + 1   \* rate-limited requests handleProxy serves

Rates   == (0 - 1) .. MaxRate
Periods == (0 - 1) .. MaxPeriod
Callers == 1 .. NumCallers
\* enough calls to see the call after the last allowed one, and one more
MaxAllowCalls == MaxRate + 2

Abs(x) == IF x < 0 THEN 0 - x ELSE x

(***************************************************************************)
(* float64 as the token bucket uses it.  A finite value is sign * N /      *)
(* 2^60, N a natural number of 53 significant bits at most, held as three  *)
(* limbs <<l2, l1, l0>> of 27 bits: N = l2 * Limb^2 + l1 * Limb + l0.      *)
(* Every operation rounds its exact result to the nearest such value, ties *)
(* to even, as IEEE 754 does.  The magnitudes the model meets lie between  *)
(* 2^-7 and 2^6, and the integers it multiplies and divides by below 16.   *)
(***************************************************************************)
Limb == 2^27

MZero == <<0, 0, 0>>

\* the bit length of a limb
RECURSIVE BitLen(_)
BitLen(x) == IF x = 0 THEN 0 ELSE 1 + BitLen(x \div 2)

MLen(a) ==
    IF a[1] > 0 THEN 54 + BitLen(a[1])
    ELSE IF a[2] > 0 THEN 27 + BitLen(a[2])
    ELSE BitLen(a[3])

MAdd(a, b) ==
    LET s0 == a[3] + b[3]
        s1 == a[2] + b[2] + (s0 \div Limb)
        s2 == a[1] + b[1] + (s1 \div Limb)
    IN  <<s2, s1 % Limb, s0 % Limb>>

\* a - b, for a >= b
MSub(a, b) ==
    LET d0 == a[3] - b[3]
        b0 == IF d0 < 0 THEN 1 ELSE 0
        d1 == a[2] - b[2] - b0
        b1 == IF d1 < 0 THEN 1 ELSE 0
    IN  <<a[1] - b[1] - b1, d1 + b1 * Limb, d0 + b0 * Limb>>

MLt(a, b) ==
    \/ a[1] < b[1]
    \/ a[1] = b[1] /\ a[2] < b[2]
    \/ a[1] = b[1] /\ a[2] = b[2] /\ a[3] < b[3]

MMul(a, k) ==
    LET p0 == a[3] * k
        p1 == a[2] * k + (p0 \div Limb)
        p2 == a[1] * k + (p1 \div Limb)
    IN  <<p2, p1 % Limb, p0 % Limb>>

\* the quotient a / p, and whether the division left a remainder
MDiv(a, p) ==
    LET n1 == (a[1] % p) * Limb + a[2]
        n0 == (n1 % p) * Limb + a[3]
    IN  [q |-> <<a[1] \div p, n1 \div p, n0 \div p>>, sticky |-> n0 % p # 0]

\* round to 53 significant bits, to nearest, ties to even; sticky: the
\* exact value lies above a
MRound(a, sticky) ==
    LET b    == MLen(a) - 53
        pw   == 2^b
        rem  == a[3] % pw
        half == pw \div 2
        odd  == (a[3] \div pw) % 2 = 1
        up   == rem > half \/ (rem = half /\ (sticky \/ odd))
        base == <<a[1], a[2], a[3] - rem>>
    IN  IF b <= 0 THEN a
        ELSE IF up THEN MAdd(base, <<0, 0, pw>>) ELSE base

Fin(s, m) == [c |-> "fin", s |-> s, m |-> m]
PInf   == [c |-> "pinf", s |-> 1, m |-> MZero]
NInf   == [c |-> "ninf", s |-> 0 - 1, m |-> MZero]
NaN    == [c |-> "nan", s |-> 1, m |-> MZero]

\* float64(n)
FromInt(n) == Fin(IF n < 0 THEN 0 - 1 ELSE 1, <<2^6 * Abs(n), 0, 0>>)

\* float64(r) / float64(p)
FDiv(r, p) ==
    IF p = 0
    THEN IF r = 0 THEN NaN ELSE IF r > 0 THEN PInf ELSE NInf
    ELSE LET d == MDiv(<<2^6 * Abs(r), 0, 0>>, Abs(p))
         IN  Fin(IF (r < 0) # (p < 0) THEN 0 - 1 ELSE 1,
                 MRound(d.q, d.sticky))

\* float64(k) * f, for an integer k >= 0
FMulInt(k, f) ==
    CASE f.c = "nan" -> NaN
      [] f.c = "fin" -> Fin(f.s, MRound(MMul(f.m, k), FALSE))
      [] OTHER -> IF k = 0 THEN NaN ELSE f

\* a + b
FAdd(a, b) ==
    CASE a.c = "nan" \/ b.c = "nan" -> NaN
      [] a.c = "fin" /\ b.c = "fin" ->
            IF a.s = b.s THEN Fin(a.s, MRound(MAdd(a.m, b.m), FALSE))
            ELSE IF MLt(a.m, b.m) THEN Fin(b.s, MRound(MSub(b.m, a.m), FALSE))
            ELSE IF a.m = b.m THEN Fin(1, MZero)
            ELSE Fin(a.s, MRound(MSub(a.m, b.m), FALSE))
      [] a.c = "fin" -> b
      [] b.c = "fin" -> a
      [] a.c = b.c -> a
      [] OTHER -> NaN

\* a + float64(k) * f in one operation: the exact product is added and the
\* sum rounded once
FMulAdd(k, f, a) ==
    IF f.c = "fin" /\ a.c = "fin"
    THEN FAdd(a, Fin(f.s, MMul(f.m, k)))
    ELSE FAdd(a, FMulInt(k, f))

\* a > b; every comparison with NaN is false
FGt(a, b) ==
    CASE a.c = "nan" \/ b.c = "nan" -> FALSE
      [] a.c = "fin" /\ b.c = "fin" ->
            IF a.m = MZero /\ b.m = MZero THEN FALSE
            ELSE IF a.s # b.s
                 THEN IF a.m = MZero THEN b.s < 0 ELSE a.s > 0
            ELSE IF a.s > 0 THEN MLt(b.m, a.m) ELSE MLt(a.m, b.m)
      [] a.c = "pinf" -> b.c # "pinf"
      [] a.c = "ninf" -> FALSE
      [] OTHER -> b.c = "ninf"

\* a >= b
FGe(a, b) ==
    CASE a.c = "nan" \/ b.c = "nan" -> FALSE
      [] OTHER -> ~FGt(b, a)

(***************************************************************************)
(* TokenBucket.  rate and period are the constructor's arguments, kept for *)
(* the properties; the code keeps only what it derives from them.          *)
(***************************************************************************)
NewTokenBucket(rate, periodSeconds, now) ==
    [kind       |-> "token_bucket",
     tokens     |-> FromInt(rate),
     maxTokens  |-> FromInt(rate),
     refillRate |-> FDiv(rate, periodSeconds),
     lastRefill |-> now,
     rate       |-> rate,
     period     |-> periodSeconds]

\* tb.tokens >= 1; a mutant that lets the empty bucket through
TBHasTokenOffByOne(tokens) == FGe(tokens, FromInt(0))

TBHasToken(tokens) == FGe(tokens, FromInt(1))

\* the tokens after the refill and the cap; tb.tokens += elapsed *
\* tb.refillRate is one fused operation or two, by the build
TBRefilled(tb, now) ==
    LET elapsed == now - tb.lastRefill
        t1 == IF fused THEN FMulAdd(elapsed, tb.refillRate, tb.tokens)
              ELSE FAdd(tb.tokens, FMulInt(elapsed, tb.refillRate))
    IN  IF FGt(t1, tb.maxTokens) THEN tb.maxTokens ELSE t1

TBAllowOk(tb, now) == TBHasToken(TBRefilled(tb, now))

TBAllowNext(tb, now) ==
    LET t2 == TBRefilled(tb, now)
    IN  [tb EXCEPT !.lastRefill = now,
                   !.tokens = IF TBHasToken(t2)
                              THEN FAdd(t2, FromInt(0 - 1))
                              ELSE t2]

(***************************************************************************)
(* FixedWindow                                                             *)
(***************************************************************************)
NewFixedWindow(rate, periodSeconds, now) ==
    [kind         |-> "fixed_window",
     count        |-> 0,
     maxRequests  |-> rate,
     windowStart  |-> now,
     windowPeriod |-> periodSeconds]

\* now.Sub(fw.windowStart) >= fw.windowPeriod; a mutant that starts the new
\* window one instant late
FWNewWindowLate(fw, now) == now - fw.windowStart > fw.windowPeriod

FWNewWindow(fw, now) == now - fw.windowStart >= fw.windowPeriod

\* the new window; a mutant that forgets fw.windowStart = now
FWRolledKeepsStart(fw, now) ==
    IF FWNewWindow(fw, now) THEN [fw EXCEPT !.count = 0] ELSE fw

FWRolled(fw, now) ==
    IF FWNewWindow(fw, now)
    THEN [fw EXCEPT !.windowStart = now, !.count = 0]
    ELSE fw

FWAllowOk(fw, now) == FWRolled(fw, now).count < fw.maxRequests

FWAllowNext(fw, now) ==
    LET w == FWRolled(fw, now)
    IN  IF FWAllowOk(fw, now) THEN [w EXCEPT !.count = w.count + 1] ELSE w

(***************************************************************************)
(* Limiter.Allow(), by the dynamic type of the limiter.                    *)
(***************************************************************************)
AllowOk(l, now) ==
    IF l.kind = "token_bucket" THEN TBAllowOk(l, now) ELSE FWAllowOk(l, now)

AllowNext(l, now) ==
    IF l.kind = "token_bucket" THEN TBAllowNext(l, now) ELSE FWAllowNext(l, now)


(***************************************************************************)
(* Config, the directive of the X-Rate-Limit header, and the store's key.  *)
(***************************************************************************)
DefaultTTL == 300

GetTTL(cfg) == IF cfg.TTL <= 0 THEN DefaultTTL ELSE cfg.TTL

\* fmt.Sprintf("%s|%s|%s|%d|%d", ...)
buildKey(egressIP, resourceKey, cfg) ==
    egressIP \o "|" \o resourceKey \o "|" \o cfg.Method \o "|"
        \o ToString(cfg.Rate) \o "|" \o ToString(cfg.Period)

ExtractResourceKey(host, path, kind) ==
    IF kind = "domain_path" THEN host \o path ELSE host

\* the switch of GetOrCreate; time.Now() is read again by the constructor;
\* a mutant whose default is the fixed window
NewLimiterDefaultWindow(cfg, now) ==
    IF cfg.Method = "token_bucket"
    THEN NewTokenBucket(cfg.Rate, cfg.Period, now)
    ELSE NewFixedWindow(cfg.Rate, cfg.Period, now)

NewLimiter(cfg, now) ==
    IF cfg.Method = "fixed_window"
    THEN NewFixedWindow(cfg.Rate, cfg.Period, now)
    ELSE NewTokenBucket(cfg.Rate, cfg.Period, now)

(***************************************************************************)
(* The store.  An entry is identified by the limiter it owns, and a        *)
(* limiter by <<key, n>>: the n-th limiter constructed for the key.        *)
(***************************************************************************)
Procs   == 1 .. NumProcs
NoEntry == <<"", 0>>
Count(f, k) == IF k \in DOMAIN f THEN f[k] ELSE 0
Put(f, k, v) == [x \in DOMAIN f \cup {k} |-> IF x = k THEN v ELSE f[x]]
Drop(f, k) == [x \in DOMAIN f \ {k} |-> f[x]]

NoCfg   == [Method |-> "", Rate |-> 0, Period |-> 0, TTL |-> 0, Kind |-> ""]
IdleFrame == [pc |-> "idle", egressIP |-> "", resourceKey |-> "", key |-> "",
              now |-> 0, cfg |-> NoCfg, entry |-> NoEntry]
IdleSweep == [pc |-> "idle", now |-> 0, todo |-> {}, before |-> <<>>]

\* what the concurrent callers of the store ask for
StoreInput(rk, m, ttl) ==
    [egressIP |-> "10.0.0.1", resourceKey |-> rk,
     cfg |-> [Method |-> m, Rate |-> 1, Period |-> 1, TTL |-> ttl, Kind |-> "domain"]]
StoreInputs ==
    {StoreInput("a.com", "token_bucket", MaxTTL),
     StoreInput("b.com", "fixed_window", 0)}

\* calls that differ in one component of the identity each; the resource
\* key of a "domain_path" directive holds whatever the request's path holds
KeyInputs ==
    {[egressIP |-> "10.0.0.1",
      resourceKey |-> ExtractResourceKey("a.com", in[1], "domain_path"),
      cfg |-> [Method |-> in[2], Rate |-> in[3], Period |-> 1, TTL |-> 0,
               Kind |-> "domain_path"]] :
        in \in {<<"/x", "z", 1>>, <<"/x", "z", 2>>, <<"/x", "y|z", 1>>,
                <<"/x|y", "z", 1>>}}

StoreInit ==
    /\ limiters = <<>>
    /\ objs = <<>>
    /\ mu = [readers |-> 0, writer |-> FALSE]
    /\ frames = [p \in Procs |-> IdleFrame]
    /\ numCalls = 0
    /\ sweep = IdleSweep
    /\ loop = "select"
    /\ tickPending = FALSE
    /\ stopCh = "open"
    /\ created = <<>>
    /\ evicted = {}
    /\ returned = {}
    /\ lastHit = <<>>

\* history: the components of the identity a call was made with
Components(f) ==
    <<f.egressIP, f.resourceKey, f.cfg.Method, f.cfg.Rate, f.cfg.Period>>

\* the entry's limiter is returned to the caller; how is the return
\* statement taken: "hit", "joined" (the double check) or "created"
Return(p, id, how) ==
    /\ returned' = returned \cup {<<frames[p].key, id, how, Components(frames[p])>>}
    /\ frames' = [frames EXCEPT ![p] = IdleFrame]

\* history: a call that read the clock at now has found the entry of key
Found(key, now) ==
    IF now - limiters[key].lastUsed > limiters[key].ttl THEN lastHit
    ELSE IF key \in DOMAIN lastHit /\ lastHit[key] > now THEN lastHit
    ELSE Put(lastHit, key, now)

\* entry.lastUsed = now, on the entry the caller holds a pointer to; the
\* entry may have left the map since the pointer was read
Refresh(p, id) ==
    LET f == frames[p]
        mapped == f.key \in DOMAIN limiters /\ limiters[f.key].limiter = id
    IN  limiters' = IF mapped
                    THEN [limiters EXCEPT ![f.key].lastUsed = f.now]
                    ELSE limiters

\* key := buildKey(...); now := time.Now()
GetOrCreateBegin(p, in) ==
    /\ frames[p].pc = "idle"
    /\ numCalls' = numCalls + 1
    /\ frames' = [frames EXCEPT ![p] =
           [pc |-> "rlock", egressIP |-> in.egressIP,
            resourceKey |-> in.resourceKey,
            key |-> buildKey(in.egressIP, in.resourceKey, in.cfg),
            now |-> clock, cfg |-> in.cfg, entry |-> NoEntry]]
    /\ UNCHANGED <<limiters, objs, mu, created, returned, lastHit>>

\* s.mu.RLock()
GetOrCreateRLock(p) ==
    /\ frames[p].pc = "rlock"
    /\ ~mu.writer
    /\ mu' = [mu EXCEPT !.readers = @ + 1]
    /\ frames' = [frames EXCEPT ![p].pc = "check"]
    /\ UNCHANGED <<limiters, objs, created, returned, lastHit>>

\* entry, ok := s.limiters[key]; s.mu.RUnlock()
GetOrCreateCheck(p) ==
    /\ frames[p].pc = "check"
    /\ mu' = [mu EXCEPT !.readers = @ - 1]
    /\ IF frames[p].key \in DOMAIN limiters
       THEN /\ frames' = [frames EXCEPT ![p].pc = "hitlock",
                              ![p].entry = limiters[frames[p].key].limiter]
            /\ lastHit' = Found(frames[p].key, frames[p].now)
       ELSE /\ frames' = [frames EXCEPT ![p].pc = "misslock"]
            /\ UNCHANGED lastHit
    /\ UNCHANGED <<limiters, objs, created, returned>>

\* s.mu.Lock(), on either path
GetOrCreateLock(p) ==
    /\ frames[p].pc \in {"hitlock", "misslock"}
    /\ ~mu.writer /\ mu.readers = 0
    /\ mu' = [mu EXCEPT !.writer = TRUE]
    /\ frames' = [frames EXCEPT ![p].pc =
                      IF @ = "hitlock" THEN "hitwrite" ELSE "misscheck"]
    /\ UNCHANGED <<limiters, objs, created, returned, lastHit>>

\* entry.lastUsed = now; s.mu.Unlock(); return entry.limiter
GetOrCreateHit(p) ==
    /\ frames[p].pc = "hitwrite"
    /\ Refresh(p, frames[p].entry)
    /\ mu' = [mu EXCEPT !.writer = FALSE]
    /\ Return(p, frames[p].entry, "hit")
    /\ UNCHANGED <<objs, created, lastHit>>

\* the double check under the write lock; a mutant that skips it
RecheckSkipped(key) == FALSE

Recheck(key) == key \in DOMAIN limiters

\* the rest of GetOrCreate under the write lock, and the deferred Unlock
GetOrCreateMiss(p) ==
    LET f  == frames[p]
        id == <<f.key, Count(created, f.key) + 1>>
    IN  /\ f.pc = "misscheck"
        /\ IF Recheck(f.key)
           THEN /\ Refresh(p, limiters[f.key].limiter)
                /\ lastHit' = Found(f.key, f.now)
                /\ Return(p, limiters[f.key].limiter, "joined")
                /\ UNCHANGED <<objs, created>>
           ELSE /\ objs' = Put(objs, id, NewLimiter(f.cfg, clock))
                /\ limiters' = Put(limiters, f.key,
                       [limiter |-> id, lastUsed |-> f.now, ttl |-> GetTTL(f.cfg)])
                /\ created' = Put(created, f.key, Count(created, f.key) + 1)
                /\ Return(p, id, "created")
                /\ UNCHANGED lastHit
        /\ mu' = [mu EXCEPT !.writer = FALSE]

\* Store.Len is called
LenCall(p) ==
    /\ frames[p].pc = "idle"
    /\ numCalls' = numCalls + 1
    /\ frames' = [frames EXCEPT ![p].pc = "lenrlock"]
    /\ UNCHANGED <<limiters, objs, mu, created, returned, lastHit>>

\* s.mu.RLock(), in Len
LenRLock(p) ==
    /\ frames[p].pc = "lenrlock"
    /\ ~mu.writer
    /\ mu' = [mu EXCEPT !.readers = @ + 1]
    /\ frames' = [frames EXCEPT ![p].pc = "len"]
    /\ UNCHANGED <<limiters, objs, created, returned, lastHit>>

\* return len(s.limiters), and the deferred s.mu.RUnlock(); a mutant that
\* returns with the read lock held
LenReturnHoldsRLock(p) ==
    /\ frames[p].pc = "len"
    /\ returned' = returned \cup
          {<<"", <<"", Cardinality(DOMAIN limiters)>>, "len", Components(IdleFrame)>>}
    /\ frames' = [frames EXCEPT ![p] = IdleFrame]
    /\ UNCHANGED <<limiters, objs, mu, created, lastHit>>

LenReturn(p) ==
    /\ frames[p].pc = "len"
    /\ mu' = [mu EXCEPT !.readers = @ - 1]
    /\ returned' = returned \cup
          {<<"", <<"", Cardinality(DOMAIN limiters)>>, "len", Components(IdleFrame)>>}
    /\ frames' = [frames EXCEPT ![p] = IdleFrame]
    /\ UNCHANGED <<limiters, objs, created, lastHit>>

(***************************************************************************)
(* cleanupLoop, cleanup and Stop.  The ticker's period is not modelled: a  *)
(* tick may arrive at any time while the loop runs.                        *)
(***************************************************************************)
TickerFire ==
    /\ loop # "exited" /\ ~tickPending
    /\ tickPending' = TRUE
    /\ UNCHANGED <<limiters, mu, sweep, loop, stopCh, evicted, lastHit>>

\* case <-ticker.C: s.cleanup()
LoopTick ==
    /\ loop = "select" /\ tickPending
    /\ tickPending' = FALSE
    /\ loop' = "cleanup"
    /\ sweep' = [IdleSweep EXCEPT !.pc = "lock"]
    /\ UNCHANGED <<limiters, mu, stopCh, evicted, lastHit>>

\* case <-s.stopCh: return
LoopStop ==
    /\ loop = "select" /\ stopCh = "closed"
    /\ loop' = "exited"
    /\ UNCHANGED <<limiters, mu, sweep, tickPending, stopCh, evicted, lastHit>>

\* close(s.stopCh)
Stop ==
    /\ stopCh = "open"
    /\ stopCh' = "closed"
    /\ UNCHANGED <<limiters, mu, sweep, loop, tickPending, evicted, lastHit>>

\* s.mu.Lock(); now := time.Now(); the range starts
CleanupLock ==
    /\ sweep.pc = "lock"
    /\ ~mu.writer /\ mu.readers = 0
    /\ mu' = [mu EXCEPT !.writer = TRUE]
    /\ sweep' = [pc |-> "range", now |-> clock, todo |-> DOMAIN limiters,
                 before |-> limiters]
    /\ UNCHANGED <<limiters, loop, tickPending, stopCh, evicted, lastHit>>

\* now.Sub(entry.lastUsed) > entry.ttl; a mutant that removes at the boundary
ExpiredAtBoundary(now, entry) == now - entry.lastUsed >= entry.ttl

Expired(now, entry) == now - entry.lastUsed > entry.ttl

\* one iteration of the range over s.limiters, in any order
CleanupStep ==
    /\ sweep.pc = "range"
    /\ \E k \in sweep.todo :
        /\ sweep' = [sweep EXCEPT !.todo = @ \ {k}]
        /\ IF Expired(sweep.now, limiters[k])
           THEN /\ limiters' = Drop(limiters, k)
                /\ evicted' = evicted \cup {k}
                /\ lastHit' = Drop(lastHit, k)
           ELSE UNCHANGED <<limiters, evicted, lastHit>>
    /\ UNCHANGED <<mu, loop, tickPending, stopCh>>

\* the deferred s.mu.Unlock(); back to the select
CleanupUnlock ==
    /\ sweep.pc = "range" /\ sweep.todo = {}
    /\ mu' = [mu EXCEPT !.writer = FALSE]
    /\ sweep' = IdleSweep
    /\ loop' = "select"
    /\ UNCHANGED <<limiters, tickPending, stopCh, evicted, lastHit>>

(***************************************************************************)
(* One limiter and its concurrent callers: Allow() takes the limiter's     *)
(* mutex, reads the clock and runs to its deferred Unlock.                 *)
(***************************************************************************)
NoLimiter == [kind |-> "none"]

LimiterIdle ==
    /\ lim = NoLimiter
    /\ limMu = 0
    /\ limPc = [c \in Callers |-> [pc |-> "idle", now |-> 0, seen |-> NoLimiter]]
    /\ limLog = <<>>

LimiterInit ==
    /\ lim \in {NewTokenBucket(r, p, 0) : r \in Rates, p \in Periods}
               \cup {NewFixedWindow(r, p, 0) : r \in Rates, p \in Periods}
    /\ limMu = 0
    /\ limPc = [c \in Callers |-> [pc |-> "idle", now |-> 0, seen |-> NoLimiter]]
    /\ limLog = <<>>

\* history: the window a fixed window is in, the last refill of a bucket
WindowOf(l) == IF l.kind = "fixed_window" THEN l.windowStart ELSE l.lastRefill

\* mu.Lock(); a mutant that does not wait for the mutex
AllowLockNoMutex(c) ==
    /\ limPc[c].pc = "idle"
    /\ Len(limLog) < MaxAllowCalls
    /\ limMu' = c
    /\ limPc' = [limPc EXCEPT ![c].pc = "locked"]
    /\ UNCHANGED <<lim, limLog, fused>>

AllowLock(c) ==
    /\ limPc[c].pc = "idle" /\ limMu = 0
    /\ Len(limLog) < MaxAllowCalls
    /\ limMu' = c
    /\ limPc' = [limPc EXCEPT ![c].pc = "locked"]
    /\ UNCHANGED <<lim, limLog, fused>>

\* now := time.Now(), and the reads of the limiter's fields
AllowRead(c) ==
    /\ limPc[c].pc = "locked"
    /\ limPc' = [limPc EXCEPT ![c] = [pc |-> "read", now |-> clock, seen |-> lim]]
    /\ UNCHANGED <<lim, limMu, limLog, fused>>

\* the writes of the limiter's fields, the return and the deferred mu.Unlock()
AllowBody(c) ==
    LET now  == limPc[c].now
        seen == limPc[c].seen
    IN  /\ limPc[c].pc = "read"
        /\ lim' = AllowNext(seen, now)
        /\ limLog' = Append(limLog, [ok |-> AllowOk(seen, now), at |-> now,
                                      win |-> WindowOf(AllowNext(seen, now))])
        /\ limMu' = 0
        /\ limPc' = [limPc EXCEPT ![c] = [pc |-> "idle", now |-> 0,
                                          seen |-> NoLimiter]]
        /\ UNCHANGED fused

(***************************************************************************)
(* handleConnect.  The request's context can be cancelled (the client      *)
(* goes away) only while net/http still reads the connection, that is      *)
(* before the hijack.  A copy task ends when its source reports EOF or an  *)
(* error, or when one of its connections has been closed.                  *)
(***************************************************************************)
Dirs == {"c2t", "t2c"}

ConnStart(hijacker) ==
    [pc |-> "dial", hijacker |-> hijacker, reqCtx |-> "live", ctx |-> "none",
     targetConn |-> "none", clientConn |-> "none", status |-> 0,
     wrote200 |-> FALSE, spawned |-> FALSE]

ConnectIdle ==
    /\ conn = [ConnStart(TRUE) EXCEPT !.pc = "none"]
    /\ copies = [d \in Dirs |-> [pc |-> "none", relayed |-> 0]]
    /\ orphans = [d \in Dirs |-> [running |-> 0, copied |-> 0]]

ConnectInit ==
    /\ conn \in {ConnStart(h) : h \in BOOLEAN}
    /\ copies = [d \in Dirs |-> [pc |-> "none", relayed |-> 0]]
    /\ orphans = [d \in Dirs |-> [running |-> 0, copied |-> 0]]

\* net.Conn.Close; a mutant that leaves the connection open
ClosedNever(c) == c

Closed(c) == IF c = "open" THEN "closed" ELSE c

\* a mutant in which the client connection is closed only on the way out
\* of the streaming phase
RunDefersLeak(f) ==
    [f EXCEPT !.pc = "returned",
              !.ctx = IF @ = "live" THEN "cancelled" ELSE @,
              !.clientConn = IF f.spawned THEN Closed(@) ELSE @,
              !.targetConn = Closed(@)]

\* return: the deferred cancel(), clientConn.Close() and targetConn.Close()
\* that were registered run
RunDefers(f) ==
    [f EXCEPT !.pc = "returned",
              !.ctx = IF @ = "live" THEN "cancelled" ELSE @,
              !.clientConn = Closed(@),
              !.targetConn = Closed(@)]

\* the client went away while the server was reading its connection
ReqCancel ==
    /\ conn.pc \in {"dial", "hijack"}
    /\ conn.reqCtx = "live"
    /\ conn' = [conn EXCEPT !.reqCtx = "cancelled"]
    /\ UNCHANGED copies

\* dialer.DialContext(r.Context(), "tcp", r.Host)
ConnDial ==
    /\ conn.pc = "dial"
    /\ \/ /\ conn.reqCtx = "live"
          /\ conn' = [conn EXCEPT !.pc = "hijack", !.targetConn = "open"]
       \/ conn' = RunDefers([conn EXCEPT !.status = 502])
    /\ UNCHANGED copies

\* w.(http.Hijacker) and hijacker.Hijack()
ConnHijack ==
    /\ conn.pc = "hijack"
    /\ \/ /\ ~conn.hijacker
          /\ conn' = RunDefers([conn EXCEPT !.status = 500])
       \/ /\ conn.hijacker
          /\ \/ conn' = RunDefers([conn EXCEPT !.status = 500])
             \/ conn' = [conn EXCEPT !.pc = "write", !.clientConn = "open"]
    /\ UNCHANGED copies

\* clientConn.Write("HTTP/1.1 200 Connection Established\r\n\r\n")
ConnWrite ==
    /\ conn.pc = "write"
    /\ \/ conn' = [conn EXCEPT !.pc = "spawn", !.wrote200 = TRUE]
       \/ conn' = RunDefers(conn)
    /\ UNCHANGED copies

\* context.WithCancel(r.Context()) and the two go statements; a mutant that
\* starts the copies before the 200 line is written
ConnSpawnEarly ==
    /\ conn.pc \in {"write", "spawn"}
    /\ conn' = [conn EXCEPT !.pc = "wait", !.spawned = TRUE,
                            !.ctx = IF conn.reqCtx = "cancelled"
                                    THEN "cancelled" ELSE "live"]
    /\ copies' = [d \in Dirs |-> [pc |-> "running", relayed |-> 0]]

ConnSpawn ==
    /\ conn.pc = "spawn"
    /\ conn' = [conn EXCEPT !.pc = "wait", !.spawned = TRUE,
                            !.ctx = IF conn.reqCtx = "cancelled"
                                    THEN "cancelled" ELSE "live"]
    /\ copies' = [d \in Dirs |-> [pc |-> "running", relayed |-> 0]]

\* <-ctx.Done() is ready; a mutant that does not wait for it
CtxDoneNoWait(f) == TRUE

CtxDone(f) == f.ctx = "cancelled"

\* <-ctx.Done(), then the return
ConnWait ==
    /\ conn.pc = "wait"
    /\ CtxDone(conn)
    /\ conn' = RunDefers(conn)
    /\ UNCHANGED copies

\* io.Copy moves one chunk
CopyRelay(d) ==
    /\ copies[d].pc = "running"
    /\ conn.clientConn = "open" /\ conn.targetConn = "open"
    /\ copies[d].relayed < MaxRelay
    /\ copies' = [copies EXCEPT ![d].relayed = @ + 1]
    /\ UNCHANGED conn

\* io.Copy returns: the source reported EOF or an error
CopyPeerEnd(d) ==
    /\ copies[d].pc = "running"
    /\ conn.clientConn = "open" /\ conn.targetConn = "open"
    /\ copies' = [copies EXCEPT ![d].pc = "copied"]
    /\ UNCHANGED conn

\* io.Copy returns: a connection it uses was closed
CopyClosedEnd(d) ==
    /\ copies[d].pc = "running"
    /\ conn.clientConn = "closed" \/ conn.targetConn = "closed"
    /\ copies' = [copies EXCEPT ![d].pc = "copied"]
    /\ UNCHANGED conn

\* cancel(), and the goroutine ends
CopyCancel(d) ==
    /\ copies[d].pc = "copied"
    /\ copies' = [copies EXCEPT ![d].pc = "done"]
    /\ conn' = [conn EXCEPT !.ctx = "cancelled"]

\* a copy goroutine of an earlier call: its handler has returned and closed
\* both connections, so its io.Copy returns
OrphanClosedEnd(d) ==
    /\ orphans[d].running > 0
    /\ orphans' = [orphans EXCEPT ![d].running = @ - 1, ![d].copied = @ + 1]
    /\ UNCHANGED <<conn, copies>>

\* its cancel(), on the context of the earlier call, which that call's
\* deferred cancel() has cancelled already; the goroutine ends
OrphanCancel(d) ==
    /\ orphans[d].copied > 0
    /\ orphans' = [orphans EXCEPT ![d].copied = @ - 1]
    /\ UNCHANGED <<conn, copies>>

(***************************************************************************)
(* Package config: the permitted-address collaborator.  The host's         *)
(* interfaces are a set of [name, up, addrs]; an address is the canonical  *)
(* text of a net.IP.  GetAvailableIPs and IsIPAllowed read the host twice: *)
(* net.Interfaces() gives the names and flags, and iface.Addrs(), called   *)
(* later for each allowed interface, gives the addresses the interface     *)
(* carries by then.  One interface is allowed, so each call makes one      *)
(* Addrs() call.                                                           *)
(***************************************************************************)
NilIP == ""

\* net.ParseIP on the texts the model uses
ParseIP(s) ==
    CASE s \in {"10.0.0.1", "10.0.0.2", "10.0.0.9", "127.0.0.1", "fe80::1"} -> s
      [] s \in {"2001:db8::1", "2001:db8:0:0:0:0:0:1"} -> "2001:db8::1"
      [] OTHER -> NilIP

IsLinkLocal(ip) == ip = "fe80::1"
IsLoopback(ip) == ip = "127.0.0.1"

\* a nil *config.Config, which only a server built without LoadConfig has,
\* and the configuration main() loads
NoConfig == [loaded |-> FALSE, AllowedInterfaces |-> {}]
TheConfig == [loaded |-> TRUE, AllowedInterfaces |-> {"eth0"}]

Iface(name, up, addrs) == [name |-> name, up |-> up, addrs |-> addrs]
NetUp ==
    [err |-> FALSE, ifaces |-> {Iface("eth0", TRUE, {"10.0.0.1", "10.0.0.2", "fe80::1",
                                                    "2001:db8::1"}),
                                Iface("eth1", TRUE, {"10.0.0.9"})}]

NetStates ==
    {[err |-> TRUE, ifaces |-> {}],
     NetUp,
     [err |-> FALSE, ifaces |-> {Iface("eth0", FALSE, {"10.0.0.1"}),
                                 Iface("eth1", TRUE, {"10.0.0.9"})}],
     [err |-> FALSE, ifaces |-> {Iface("eth0", TRUE, {"fe80::1"}),
                                 Iface("lo", TRUE, {"127.0.0.1"})}]}

\* net.Interfaces() on the host n: [err, ifs], ifs the name and the flags
\* of every interface
Interfaces(n) ==
    [err |-> n.err, ifs |-> {[name |-> i.name, up |-> i.up] : i \in n.ifaces}]

\* iface.Addrs() on the host n: the addresses the interface of that name
\* carries when the call is made, whatever its flags; none when the call
\* fails (the caller goes on to the next interface) or the interface is gone
Addrs(n, name) ==
    IF n.err THEN {}
    ELSE UNION {i.addrs : i \in {j \in n.ifaces : j.name = name}}

\* Config.GetAvailableIPs: [err, ips], ips the IPInfo of the result; ifs is
\* what net.Interfaces() returned, n the host when Addrs() is called
GetAvailableIPs(c, ifs, n) ==
    IF ifs.err THEN [err |-> TRUE, ips |-> {}]
    ELSE [err |-> FALSE,
          ips |-> {[Interface |-> i.name, IP |-> a] :
                      <<i, a>> \in {<<j, b>> \in ifs.ifs \X
                                        UNION {k.addrs : k \in n.ifaces} :
                                      /\ j.name \in c.AllowedInterfaces
                                      /\ j.up
                                      /\ b \in Addrs(n, j.name)
                                      /\ ~IsLinkLocal(b)
                                      /\ ~IsLoopback(b)}}]

\* Config.IsIPAllowed, with ifs and n as in GetAvailableIPs
IsIPAllowed(c, ifs, n, ipStr) ==
    /\ ParseIP(ipStr) # NilIP
    /\ ~ifs.err
    /\ \E i \in ifs.ifs :
          /\ i.name \in c.AllowedInterfaces
          /\ ParseIP(ipStr) \in Addrs(n, i.name)

(***************************************************************************)
(* handleProxy.  A request is [method, egress, rl, host, path, hijacker]:   *)
(* egress is the X-Egress-IP header ("" when absent), rl the X-Rate-Limit  *)
(* header, a JSON text that is well formed (wf) or not, and hijacker tells *)
(* whether the ResponseWriter the request comes with is an http.Hijacker.  *)
(***************************************************************************)
StatusBadRequest          == 400
StatusForbidden           == 403
StatusTooManyRequests     == 429
StatusInternalServerError == 500
StatusOK                  == 200

NoRLHeader  == [present |-> FALSE, wf |-> FALSE, cfg |-> NoCfg]
MalformedRL == [present |-> TRUE, wf |-> FALSE, cfg |-> NoCfg]
RLHeader(m, r, p) ==
    [present |-> TRUE, wf |-> TRUE,
     cfg |-> [Method |-> m, Rate |-> r, Period |-> p, TTL |-> 0, Kind |-> "domain"]]

ProxyRequests ==
    {r \in {[method |-> m, egress |-> e, rl |-> h, host |-> "a.com",
      path |-> IF m = "CONNECT" THEN "" ELSE "/x", hijacker |-> w] :
        m \in {"CONNECT", "GET"}, w \in BOOLEAN,
        e \in {"", "10.0.0.1", "10.0.0.9", "not-an-ip",
               "2001:db8::1", "2001:db8:0:0:0:0:0:1"},
        h \in {NoRLHeader, MalformedRL, RLHeader("token_bucket", 1, 1)}} :
        r.hijacker => r.method = "CONNECT"}

\* rate-limited requests through one egress address, the ResponseWriter
\* of each being no http.Hijacker (a CONNECT ends in handleConnect's 500)
GatedRequests ==
    {[method |-> m, egress |-> "10.0.0.1", rl |-> h, host |-> "a.com",
      path |-> IF m = "CONNECT" THEN "" ELSE "/x", hijacker |-> FALSE] :
        m \in {"CONNECT", "GET"},
        h \in {RLHeader(a, MaxRate, 1) : a \in {"token_bucket", "fixed_window"}}}

\* requests with a directive of every shape json.Unmarshal accepts: known
\* and unknown method texts, rates and periods around 0
DirectiveRequests ==
    {[method |-> m, egress |-> "10.0.0.1", rl |-> h, host |-> "a.com",
      path |-> IF m = "CONNECT" THEN "" ELSE "/x", hijacker |-> FALSE] :
        m \in {"CONNECT", "GET"},
        h \in {MalformedRL} \cup
              {RLHeader(a, r, ps) :
                  a \in {"token_bucket", "fixed_window", "", "sliding_window"},
                  r \in (0 - 1) .. 1, ps \in (0 - 1) .. 1}}

NoRequest ==
    [method |-> "", egress |-> "", rl |-> NoRLHeader, host |-> "", path |-> "",
     hijacker |-> FALSE]
NoLast ==
    [pc |-> "idle", req |-> NoRequest, status |-> 0, source |-> "", dispatched |-> "none",
     egressIP |-> "", localIP |-> NilIP, how |-> "none",
     ifs |-> [err |-> FALSE, ifs |-> {}],
     limiter |-> NoEntry, allowed |-> FALSE]

\* no forwarded request yet
ForwardIdle ==
    [pc |-> "idle", heap |-> <<>>, outReq |-> "", inbound |-> <<>>,
     sent |-> <<>>, lines |-> <<>>, status |-> 0]

ProxyIdle ==
    /\ hsConfig = TheConfig
    /\ net = NetUp
    /\ numReqs = 0
    /\ last = [p \in Procs |-> NoLast]
    /\ allowLog = <<>>
    /\ fwd = ForwardIdle

\* StartHTTPServer(config) in main(), which has exited if LoadConfig failed
ProxyInit ==
    /\ hsConfig = TheConfig
    /\ net \in NetStates
    /\ numReqs = 0
    /\ last = [p \in Procs |-> NoLast]
    /\ allowLog = <<>>
    /\ fwd = ForwardIdle

\* the addresses of the host change at run time
NetChange ==
    /\ \E n \in NetStates : n # net /\ net' = n
    /\ UNCHANGED <<hsConfig, numReqs, last, allowLog, fwd>>

\* hs.config != nil && !hs.config.IsIPAllowed(egressIP); a mutant that
\* never refuses
ForbiddenNever(hs, ifs, n, egressIP) == FALSE

Forbidden(hs, ifs, n, egressIP) == hs.loaded /\ ~IsIPAllowed(hs, ifs, n, egressIP)

\* ips[rand.Intn(len(ips))].IP, every value it can take; a mutant that
\* takes the interface's name for its address
PickEgressInterface(ips) == {i.Interface : i \in ips}

PickEgress(ips) == {i.IP : i \in ips}

\* the first part of handleProxy: the outcomes of choosing the egress IP,
\* one for each value rand.Intn can return; ifs is what net.Interfaces()
\* returned to GetAvailableIPs or IsIPAllowed, n the host at Addrs()
SelectEgress(req, hs, ifs, n) ==
    LET r == GetAvailableIPs(hs, ifs, n)
        fail(st) == [status |-> st, egressIP |-> "", how |-> "none"]
    IN  IF req.egress = ""
        THEN IF ~hs.loaded
             THEN {fail(StatusInternalServerError)}
             ELSE IF r.err \/ r.ips = {}
             THEN {fail(StatusInternalServerError)}
             ELSE {[status |-> 0, egressIP |-> ip, how |-> "listed"] :
                        ip \in PickEgress(r.ips)}
        ELSE IF Forbidden(hs, ifs, n, req.egress)
             THEN {fail(StatusForbidden)}
             ELSE {[status |-> 0, egressIP |-> req.egress,
                    how |-> IF hs.loaded THEN "checked" ELSE "unchecked"]}

\* json.Unmarshal([]byte(rateLimitHeader), &rlConfig)
Unmarshal(h) == [err |-> ~h.wf, cfg |-> h.cfg]

\* !limiter.Allow(); a mutant that never answers 429
RateLimitedNever(ok) == FALSE

RateLimited(ok) == ~ok

Handler(method) == IF method = "CONNECT" THEN "connect" ELSE "forward"

(***************************************************************************)
(* handleHTTPProxy and removeHopByHopHeaders.  A header value is a text,   *)
(* held as the sequence of its pieces: names, "," and " ".  An http.Header *)
(* is a map from canonical name to the sequence of the values of its       *)
(* lines; maps are reference values, so the header maps live in a heap and *)
(* a request or response holds the address of its map.                     *)
(***************************************************************************)
StatusBadGateway == 502

\* textproto.CanonicalMIMEHeaderKey, on the names that occur here
CanonicalMIMEHeaderKey(name) ==
    CASE name \in {"X-Egress-IP", "x-egress-ip"}     -> "X-Egress-Ip"
      [] name \in {"x-rate-limit", "X-RATE-LIMIT"}   -> "X-Rate-Limit"
      [] name = "proxy-connection"                   -> "Proxy-Connection"
      [] name = "proxy-authorization"                -> "Proxy-Authorization"
      [] name = "connection"                         -> "Connection"
      [] name = "keep-alive"                         -> "Keep-Alive"
      [] name = "TE"                                 -> "Te"
      [] name = "x-foo"                              -> "X-Foo"
      [] name = "x-bar"                              -> "X-Bar"
      [] name = "close"                              -> "Close"
      [] name = "upgrade"                            -> "Upgrade"
      [] name = "trailer"                            -> "Trailer"
      [] name = "transfer-encoding"                  -> "Transfer-Encoding"
      [] name = "proxy-authenticate"                 -> "Proxy-Authenticate"
      [] name = "content-type"                       -> "Content-Type"
      [] name = "accept"                             -> "Accept"
      [] name = "x-custom"                           -> "X-Custom"
      [] OTHER                                       -> name

\* Header.Get: the first value of the name's lines, "" when there is none
HeaderGet(h, key) ==
    LET k == CanonicalMIMEHeaderKey(key)
    IN  IF k \in DOMAIN h /\ Len(h[k]) > 0 THEN h[k][1] ELSE <<>>

HeaderDel(h, key) == Drop(h, CanonicalMIMEHeaderKey(key))

HeaderAdd(h, key, value) ==
    LET k == CanonicalMIMEHeaderKey(key)
    IN  Put(h, k, Append(IF k \in DOMAIN h THEN h[k] ELSE <<>>, value))

RECURSIVE HeaderDelAll(_, _)
HeaderDelAll(h, keys) ==
    IF keys = <<>> THEN h ELSE HeaderDelAll(HeaderDel(h, Head(keys)), Tail(keys))

\* strings.TrimSpace; the pieces hold no white space but the space, " "
RECURSIVE TrimSpace(_)
TrimSpace(f) ==
    IF f = <<>> THEN f
    ELSE IF Head(f) = " " THEN TrimSpace(Tail(f))
    ELSE IF f[Len(f)] = " " THEN TrimSpace(SubSeq(f, 1, Len(f) - 1))
    ELSE f

\* the header map a server or transport builds from the lines it reads:
\* the reader (textproto) trims the spaces and tabs at both ends of a
\* line's value, which on these pieces is what TrimSpace does
RECURSIVE ReadHeader(_)
ReadHeader(lines) ==
    IF lines = <<>> THEN <<>>
    ELSE LET l == lines[Len(lines)]
         IN  HeaderAdd(ReadHeader(SubSeq(lines, 1, Len(lines) - 1)), l.name,
                       TrimSpace(l.value))

\* strings.Split(c, ",")
RECURSIVE Split(_)
Split(c) ==
    IF \A i \in 1 .. Len(c) : c[i] # "," THEN <<c>>
    ELSE LET i == CHOOSE j \in 1 .. Len(c) :
                      c[j] = "," /\ \A k \in 1 .. j - 1 : c[k] # ","
         IN  <<SubSeq(c, 1, i - 1)>> \o Split(SubSeq(c, i + 1, Len(c)))

\* the text a sequence of pieces stands for
RECURSIVE Text(_)
Text(f) == IF f = <<>> THEN "" ELSE Head(f) \o Text(Tail(f))

hopByHopHeaders ==
    <<"Connection", "Keep-Alive", "Proxy-Authenticate", "Proxy-Authorization",
      "Te", "Trailer", "Transfer-Encoding", "Upgrade">>

\* the headers the Connection value names, in the order of the value
ConnectionFields(c) == [i \in 1 .. Len(Split(c)) |-> Text(TrimSpace(Split(c)[i]))]

removeHopByHopHeaders(h) ==
    LET c == HeaderGet(h, "Connection")
        listed == IF c # <<>> THEN HeaderDelAll(h, ConnectionFields(c)) ELSE h
    IN  HeaderDelAll(listed, hopByHopHeaders)

\* r.Clone copies the header map; a mutant that shares it
CloneHeaderShared(heap, from, to) == from

CloneHeader(heap, from, to) == to

\* the headers handleHTTPProxy deletes from the outgoing request
proxyHeaders ==
    <<"X-Egress-IP", "X-Rate-Limit", "Proxy-Connection", "Proxy-Authorization">>

\* the header lines of the requests and of the upstream's responses
Line(name, value) == [name |-> name, value |-> value]
ResponseLines ==
    {Line("Connection", <<"close">>),
     Line("Connection", <<"x-foo", ",", " ", "X-Bar", " ">>),
     Line("connection", <<"X-Bar">>),
     Line("X-Foo", <<"1">>), Line("X-Bar", <<"2">>),
     Line("keep-alive", <<"timeout=5">>),
     Line("Content-Type", <<"text/html">>)}

\* the requests: the lines in the order sent, each line sent or not
RECURSIVE SubSeqs(_)
SubSeqs(q) ==
    IF q = <<>> THEN {<<>>}
    ELSE LET rest == SubSeqs(Tail(q))
         IN  rest \cup {<<Head(q)>> \o r : r \in rest}
RequestHeaders ==
    SubSeqs(<<Line("X-Egress-IP", <<"10.0.0.1">>), Line("x-rate-limit", <<"{}">>),
              Line("Proxy-Connection", <<"keep-alive">>),
              Line("proxy-authorization", <<"Basic", " ", "dXNlcg==">>),
              Line("Accept", <<"*/*">>)>>)

\* the server has read a forward request: r.Header holds its lines
ForwardBegin(ls) ==
    /\ fwd.pc \in {"idle", "returned"}
    /\ fwd' = [ForwardIdle EXCEPT !.pc = "clone",
                          !.heap = Put(<<>>, "r.Header", ReadHeader(ls)),
                          !.inbound = ReadHeader(ls)]

\* outReq := r.Clone(...); the four outReq.Header.Del; RoundTrip is handed
\* outReq
ForwardStrip ==
    LET out  == CloneHeader(fwd.heap, "r.Header", "outReq.Header")
        heap == Put(fwd.heap, out, HeaderDelAll(fwd.heap["r.Header"], proxyHeaders))
    IN  /\ fwd.pc = "clone"
        /\ fwd' = [fwd EXCEPT !.pc = "roundtrip", !.heap = heap, !.outReq = out,
                              !.sent = heap[out]]

\* transport.RoundTrip fails: 502
ForwardFail ==
    /\ fwd.pc = "roundtrip"
    /\ fwd.lines = <<>>
    /\ fwd' = [fwd EXCEPT !.pc = "returned", !.status = StatusBadGateway]

\* the transport reads one more header line of the response
ForwardReadLine(l) ==
    /\ fwd.pc = "roundtrip"
    /\ Len(fwd.lines) < MaxLines
    /\ \A i \in 1 .. Len(fwd.lines) : fwd.lines[i] # l
    /\ fwd' = [fwd EXCEPT !.lines = Append(@, l)]

\* resp.Header as transport.RoundTrip returns it for the header map read
\* off the wire: the transport deletes the Connection header of an
\* HTTP/1.minor response, minor > 0, one of whose Connection values holds
\* the token close (values split at commas, trimmed, compared without
\* regard to case).  It deletes Transfer-Encoding and Trailer as well, which
\* no line of ResponseLines carries
TransportHeader(h, minor) ==
    LET conv == IF "Connection" \in DOMAIN h THEN h["Connection"] ELSE <<>>
        hasClose ==
            \E i \in 1 .. Len(conv) : \E j \in 1 .. Len(ConnectionFields(conv[i])) :
                CanonicalMIMEHeaderKey(ConnectionFields(conv[i])[j]) = "Close"
    IN  IF minor > 0 /\ hasClose THEN HeaderDel(h, "Connection") ELSE h

\* RoundTrip returns resp, an HTTP/1.0 or HTTP/1.1 response; its headers
\* are copied to w.Header(), removeHopByHopHeaders(w.Header()),
\* w.WriteHeader(resp.StatusCode)
ForwardRespond ==
    /\ fwd.pc = "roundtrip"
    /\ \E minor \in {0, 1} :
         LET resp == TransportHeader(ReadHeader(fwd.lines), minor)
         IN  fwd' = [fwd EXCEPT !.pc = "returned", !.status = StatusOK,
                       !.heap = Put(Put(@, "resp.Header", resp),
                                    "w.Header()", removeHopByHopHeaders(resp))]

(***************************************************************************)
(* handleProxy.  Every request is served by a goroutine of its own;        *)
(* last[p] is the request goroutine p serves, what handleProxy has found   *)
(* out about it, and where it stands: "select" between net.Interfaces()    *)
(* and iface.Addrs() while the egress address is chosen (ifs is what       *)
(* net.Interfaces() returned, kept until then), "getorcreate" inside       *)
(* Store.GetOrCreate (its frame is frames[p]), "allow" before              *)
(* limiter.Allow(), "handler" inside handleConnect or handleHTTPProxy,     *)
(* "idle" once handleProxy has returned.  conn and fwd are the frames of   *)
(* the tunnel and of the forwarded request in progress.  last[p].status is *)
(* the status handleProxy itself answered with, 0 when it left the answer  *)
(* to the handler (conn.status, fwd.status).                               *)
(***************************************************************************)
\* the header lines handleProxy reads of a request; the text of the
\* directive plays no part in what the forwarder does with the line
RequestLines(req) ==
    (IF req.egress = "" THEN <<>> ELSE <<Line("X-Egress-IP", <<req.egress>>)>>)
        \o (IF req.rl.present THEN <<Line("X-Rate-Limit", <<"{}">>)>> ELSE <<>>)

\* http.Error(w, ..., st); return
Reply(p, rec, st) ==
    /\ last' = [last EXCEPT ![p] = [rec EXCEPT !.pc = "idle", !.status = st]]
    /\ UNCHANGED <<connVars, fwd>>

\* hs.handleConnect(w, r, localIP) or hs.handleHTTPProxy(w, r, localIP) is
\* called.  conn and copies become the frame and the copy goroutines of the
\* new handleConnect call; the copy goroutines an earlier call has left
\* behind go on as orphans
Dispatch(p, rec) ==
    /\ last' = [last EXCEPT ![p] =
                   [rec EXCEPT !.pc = "handler",
                               !.localIP = ParseIP(rec.egressIP),
                               !.dispatched = Handler(rec.req.method)]]
    /\ IF rec.req.method = "CONNECT"
       THEN /\ conn' = ConnStart(rec.req.hijacker)
            /\ copies' = [d \in Dirs |-> [pc |-> "none", relayed |-> 0]]
            /\ orphans' =
                  [d \in Dirs |->
                     [running |-> orphans[d].running
                          + (IF copies[d].pc = "running" THEN 1 ELSE 0),
                      copied  |-> orphans[d].copied
                          + (IF copies[d].pc = "copied" THEN 1 ELSE 0)]]
            /\ UNCHANGED fwd
       ELSE /\ ForwardBegin(RequestLines(rec.req))
            /\ UNCHANGED connVars

\* handleProxy is called with a request: r.Header.Get("X-Egress-IP"), and
\* net.Interfaces() in GetAvailableIPs or IsIPAllowed, where the code gets
\* that far (IsIPAllowed returns before it for a text that does not parse)
HandleProxy(p, req) ==
    /\ last[p].pc = "idle"
    /\ numReqs' = numReqs + 1
    /\ last' = [last EXCEPT ![p] =
          [NoLast EXCEPT !.pc = "select", !.req = req,
                         !.ifs = IF /\ hsConfig.loaded
                                    /\ req.egress = "" \/ ParseIP(req.egress) # NilIP
                                 THEN Interfaces(net) ELSE @]]
    /\ UNCHANGED <<limiters, objs, mu, frames, numCalls, created, returned,
                   lastHit, connVars, hsConfig, net, allowLog, fwd>>

\* handleProxy from iface.Addrs() up to its first return, handler call or
\* call of GetOrCreate, whose first two statements (the key, time.Now())
\* are part of the step
ProxySelect(p) ==
    /\ last[p].pc = "select"
    /\ \E sel \in SelectEgress(last[p].req, hsConfig, last[p].ifs, net) :
         LET req  == last[p].req
             rec  == [NoLast EXCEPT !.req = req, !.egressIP = sel.egressIP,
                                    !.how = sel.how]
             cfg  == Unmarshal(req.rl).cfg
             path == IF req.method = "CONNECT" THEN "" ELSE req.path
             idle == UNCHANGED <<limiters, objs, mu, frames, numCalls, created,
                                 returned, lastHit>>
         IN  IF sel.status # 0
             THEN Reply(p, rec, sel.status) /\ idle
             ELSE IF ParseIP(sel.egressIP) = NilIP
             THEN Reply(p, rec, StatusBadRequest) /\ idle
             ELSE IF ~req.rl.present
             THEN Dispatch(p, rec) /\ idle
             ELSE IF Unmarshal(req.rl).err
             THEN Reply(p, rec, StatusBadRequest) /\ idle
             ELSE /\ GetOrCreateBegin(p,
                        [egressIP |-> sel.egressIP,
                         resourceKey |-> ExtractResourceKey(req.host, path, cfg.Kind),
                         cfg |-> cfg])
                  /\ last' = [last EXCEPT ![p] = [rec EXCEPT !.pc = "getorcreate"]]
                  /\ UNCHANGED <<connVars, fwd>>
    /\ UNCHANGED <<hsConfig, net, numReqs, allowLog>>

\* GetOrCreate returns the limiter to handleProxy, on the hit path or the
\* miss path; history: when the limiter was made, and for which directive
StoreReturn(p) ==
    LET id == IF frames[p].pc = "hitwrite" THEN frames[p].entry
              ELSE limiters'[frames[p].key].limiter
    IN  /\ last[p].pc = "getorcreate"
        /\ GetOrCreateHit(p) \/ GetOrCreateMiss(p)
        /\ last' = [last EXCEPT ![p].pc = "allow", ![p].limiter = id]
        /\ allowLog' = IF id \in DOMAIN allowLog THEN allowLog
                       ELSE Put(allowLog, id, [born |-> clock, cfg |-> frames[p].cfg,
                                               res |-> <<>>])

\* limiter.Allow(), with time.Now() read under the limiter's mutex, then
\* the 429 or the handler
Gate(p) ==
    LET rec == last[p]
        id  == rec.limiter
        ok  == AllowOk(objs[id], clock)
        out == IF RateLimited(ok)
               THEN [status |-> StatusTooManyRequests, source |-> "specificproxy",
                     dispatched |-> "none"]
               ELSE [status |-> 0, source |-> "", dispatched |-> Handler(rec.req.method)]
    IN  /\ rec.pc = "allow"
        /\ objs' = [objs EXCEPT ![id] = AllowNext(objs[id], clock)]
        /\ allowLog' = [allowLog EXCEPT ![id].res =
               Append(@, [ok |-> ok, at |-> clock, status |-> out.status,
                          source |-> out.source, dispatched |-> out.dispatched])]
        /\ IF RateLimited(ok)
           THEN Reply(p, [rec EXCEPT !.source = "specificproxy"], StatusTooManyRequests)
           ELSE Dispatch(p, [rec EXCEPT !.allowed = TRUE])

\* the handler has returned, and handleProxy returns
ProxyReturn(p) ==
    /\ last[p].pc = "handler"
    /\ \/ last[p].dispatched = "connect" /\ conn.pc = "returned"
       \/ last[p].dispatched = "forward" /\ fwd.pc = "returned"
    /\ last' = [last EXCEPT ![p].pc = "idle"]

(***************************************************************************)
(* The specifications.                                                     *)
(***************************************************************************)
\* what GetOrCreate leaves alone, and what the cleanup loop leaves alone
sweepOnly == <<sweep, loop, tickPending, stopCh, evicted>>
others    == <<limVars, connVars, proxyVars>>

\* the store: GetOrCreate from NumProcs goroutines, the cleanup loop, Stop
Init ==
    /\ clock = 0 /\ StoreInit /\ LimiterIdle /\ ConnectIdle /\ ProxyIdle
    /\ fused = FALSE   \* no Allow() runs here

Next ==
    \/ \E p \in Procs, in \in StoreInputs :
          /\ numCalls < MaxCalls
          /\ GetOrCreateBegin(p, in) /\ UNCHANGED <<clock, sweepOnly, others>>
    \/ \E p \in Procs :
          GetOrCreateRLock(p) /\ UNCHANGED <<clock, numCalls, sweepOnly, others>>
    \/ \E p \in Procs :
          GetOrCreateCheck(p) /\ UNCHANGED <<clock, numCalls, sweepOnly, others>>
    \/ \E p \in Procs :
          GetOrCreateLock(p) /\ UNCHANGED <<clock, numCalls, sweepOnly, others>>
    \/ \E p \in Procs :
          GetOrCreateHit(p) /\ UNCHANGED <<clock, numCalls, sweepOnly, others>>
    \/ \E p \in Procs :
          GetOrCreateMiss(p) /\ UNCHANGED <<clock, numCalls, sweepOnly, others>>
    \/ TickerFire /\ UNCHANGED <<clock, objs, frames, numCalls, created, returned, others>>
    \/ LoopTick /\ UNCHANGED <<clock, objs, frames, numCalls, created, returned, others>>
    \/ LoopStop /\ UNCHANGED <<clock, objs, frames, numCalls, created, returned, others>>
    \/ Stop /\ UNCHANGED <<clock, objs, frames, numCalls, created, returned, others>>
    \/ CleanupLock /\ UNCHANGED <<clock, objs, frames, numCalls, created, returned, others>>
    \/ CleanupStep /\ UNCHANGED <<clock, objs, frames, numCalls, created, returned, others>>
    \/ CleanupUnlock /\ UNCHANGED <<clock, objs, frames, numCalls, created, returned, others>>
    \/ /\ clock < MaxStoreTime /\ clock' = clock + 1
       /\ UNCHANGED <<storeVars, others>>
Spec == Init /\ [][Next]_vars

\* the store without the cleanup loop: what identifies a limiter
NextKeys ==
    \/ \E p \in Procs, in \in KeyInputs :
          /\ numCalls < MaxCalls
          /\ GetOrCreateBegin(p, in) /\ UNCHANGED <<clock, sweepOnly, others>>
    \/ \E p \in Procs :
          GetOrCreateRLock(p) /\ UNCHANGED <<clock, numCalls, sweepOnly, others>>
    \/ \E p \in Procs :
          GetOrCreateCheck(p) /\ UNCHANGED <<clock, numCalls, sweepOnly, others>>
    \/ \E p \in Procs :
          GetOrCreateLock(p) /\ UNCHANGED <<clock, numCalls, sweepOnly, others>>
    \/ \E p \in Procs :
          GetOrCreateHit(p) /\ UNCHANGED <<clock, numCalls, sweepOnly, others>>
    \/ \E p \in Procs :
          GetOrCreateMiss(p) /\ UNCHANGED <<clock, numCalls, sweepOnly, others>>
SpecKeys == Init /\ [][NextKeys]_vars

\* one forwarded request
notForward == <<clock, limVars, storeVars, connVars, hsConfig, net, numReqs,
                last, allowLog>>
NextForward ==
    \/ \E ls \in RequestHeaders : ForwardBegin(ls) /\ UNCHANGED notForward
    \/ ForwardStrip /\ UNCHANGED notForward
    \/ ForwardFail /\ UNCHANGED notForward
    \/ \E l \in ResponseLines : ForwardReadLine(l) /\ UNCHANGED notForward
    \/ ForwardRespond /\ UNCHANGED notForward
SpecForward == Init /\ [][NextForward]_vars

\* the store under one caller, with the scheduling the runtime gives: every
\* goroutine that can take a step eventually takes one, and a select with
\* several ready cases picks among them at random, so it does not pass
\* over the closed stopCh for ever
NextStop ==
    \/ /\ numCalls < MaxCalls
       /\ GetOrCreateBegin(1, StoreInput("a.com", "token_bucket", MaxTTL))
       /\ UNCHANGED <<clock, sweepOnly, others>>
    \/ GetOrCreateRLock(1) /\ UNCHANGED <<clock, numCalls, sweepOnly, others>>
    \/ GetOrCreateCheck(1) /\ UNCHANGED <<clock, numCalls, sweepOnly, others>>
    \/ GetOrCreateLock(1) /\ UNCHANGED <<clock, numCalls, sweepOnly, others>>
    \/ GetOrCreateHit(1) /\ UNCHANGED <<clock, numCalls, sweepOnly, others>>
    \/ GetOrCreateMiss(1) /\ UNCHANGED <<clock, numCalls, sweepOnly, others>>
    \/ TickerFire /\ UNCHANGED <<clock, objs, frames, numCalls, created, returned, others>>
    \/ LoopTick /\ UNCHANGED <<clock, objs, frames, numCalls, created, returned, others>>
    \/ LoopStop /\ UNCHANGED <<clock, objs, frames, numCalls, created, returned, others>>
    \/ Stop /\ UNCHANGED <<clock, objs, frames, numCalls, created, returned, others>>
    \/ CleanupLock /\ UNCHANGED <<clock, objs, frames, numCalls, created, returned, others>>
    \/ CleanupStep /\ UNCHANGED <<clock, objs, frames, numCalls, created, returned, others>>
    \/ CleanupUnlock /\ UNCHANGED <<clock, objs, frames, numCalls, created, returned, others>>
    \/ /\ clock < MaxStoreTime /\ clock' = clock + 1
       /\ UNCHANGED <<storeVars, others>>
SpecStop ==
    /\ Init /\ [][NextStop]_vars
    /\ WF_vars(GetOrCreateRLock(1) /\ UNCHANGED <<clock, numCalls, sweepOnly, others>>)
    /\ WF_vars(GetOrCreateCheck(1) /\ UNCHANGED <<clock, numCalls, sweepOnly, others>>)
    /\ WF_vars(GetOrCreateLock(1) /\ UNCHANGED <<clock, numCalls, sweepOnly, others>>)
    /\ WF_vars(GetOrCreateHit(1) /\ UNCHANGED <<clock, numCalls, sweepOnly, others>>)
    /\ WF_vars(GetOrCreateMiss(1) /\ UNCHANGED <<clock, numCalls, sweepOnly, others>>)
    /\ WF_vars(CleanupLock /\ UNCHANGED <<clock, objs, frames, numCalls, created, returned, others>>)
    /\ WF_vars(CleanupStep /\ UNCHANGED <<clock, objs, frames, numCalls, created, returned, others>>)
    /\ WF_vars(CleanupUnlock /\ UNCHANGED <<clock, objs, frames, numCalls, created, returned, others>>)
    /\ SF_vars(LoopStop /\ UNCHANGED <<clock, objs, frames, numCalls, created, returned, others>>)

\* the store under GetOrCreate, Len and the sweeps together, with the
\* scheduling the runtime gives: a goroutine that can take a step eventually
\* takes one, and a goroutine waiting for the lock is not passed over for
\* ever (sync.RWMutex blocks new readers while a writer waits, and
\* sync.Mutex hands the lock to a starving waiter)
NextLive ==
    \/ \E p \in Procs, in \in StoreInputs :
          /\ numCalls < MaxCalls
          /\ GetOrCreateBegin(p, in) /\ UNCHANGED <<clock, sweepOnly, others>>
    \/ \E p \in Procs :
          GetOrCreateRLock(p) /\ UNCHANGED <<clock, numCalls, sweepOnly, others>>
    \/ \E p \in Procs :
          GetOrCreateCheck(p) /\ UNCHANGED <<clock, numCalls, sweepOnly, others>>
    \/ \E p \in Procs :
          GetOrCreateLock(p) /\ UNCHANGED <<clock, numCalls, sweepOnly, others>>
    \/ \E p \in Procs :
          GetOrCreateHit(p) /\ UNCHANGED <<clock, numCalls, sweepOnly, others>>
    \/ \E p \in Procs :
          GetOrCreateMiss(p) /\ UNCHANGED <<clock, numCalls, sweepOnly, others>>
    \/ \E p \in Procs :
          numCalls < MaxCalls /\ LenCall(p) /\ UNCHANGED <<clock, sweepOnly, others>>
    \/ \E p \in Procs : LenRLock(p) /\ UNCHANGED <<clock, numCalls, sweepOnly, others>>
    \/ \E p \in Procs : LenReturn(p) /\ UNCHANGED <<clock, numCalls, sweepOnly, others>>
    \/ TickerFire /\ UNCHANGED <<clock, objs, frames, numCalls, created, returned, others>>
    \/ LoopTick /\ UNCHANGED <<clock, objs, frames, numCalls, created, returned, others>>
    \/ CleanupLock /\ UNCHANGED <<clock, objs, frames, numCalls, created, returned, others>>
    \/ CleanupStep /\ UNCHANGED <<clock, objs, frames, numCalls, created, returned, others>>
    \/ CleanupUnlock /\ UNCHANGED <<clock, objs, frames, numCalls, created, returned, others>>
    \/ /\ clock < MaxStoreTime /\ clock' = clock + 1
       /\ UNCHANGED <<storeVars, others>>
SpecLive ==
    /\ Init /\ [][NextLive]_vars
    /\ \A p \in Procs :
          /\ SF_vars(GetOrCreateRLock(p) /\ UNCHANGED <<clock, numCalls, sweepOnly, others>>)
          /\ WF_vars(GetOrCreateCheck(p) /\ UNCHANGED <<clock, numCalls, sweepOnly, others>>)
          /\ SF_vars(GetOrCreateLock(p) /\ UNCHANGED <<clock, numCalls, sweepOnly, others>>)
          /\ WF_vars(GetOrCreateHit(p) /\ UNCHANGED <<clock, numCalls, sweepOnly, others>>)
          /\ WF_vars(GetOrCreateMiss(p) /\ UNCHANGED <<clock, numCalls, sweepOnly, others>>)
          /\ SF_vars(LenRLock(p) /\ UNCHANGED <<clock, numCalls, sweepOnly, others>>)
          /\ WF_vars(LenReturn(p) /\ UNCHANGED <<clock, numCalls, sweepOnly, others>>)
    /\ SF_vars(CleanupLock /\ UNCHANGED <<clock, objs, frames, numCalls, created, returned, others>>)
    /\ WF_vars(CleanupStep /\ UNCHANGED <<clock, objs, frames, numCalls, created, returned, others>>)
    /\ WF_vars(CleanupUnlock /\ UNCHANGED <<clock, objs, frames, numCalls, created, returned, others>>)

\* one limiter
InitLimiter ==
    /\ clock = 0 /\ LimiterInit /\ StoreInit /\ ConnectIdle /\ ProxyIdle
    /\ fused \in BOOLEAN

NextLimiter ==
    \/ \E c \in Callers :
          AllowLock(c) /\ UNCHANGED <<clock, storeVars, connVars, proxyVars>>
    \/ \E c \in Callers :
          AllowRead(c) /\ UNCHANGED <<clock, storeVars, connVars, proxyVars>>
    \/ \E c \in Callers :
          AllowBody(c) /\ UNCHANGED <<clock, storeVars, connVars, proxyVars>>
    \/ /\ clock < MaxTime /\ clock' = clock + 1
       /\ UNCHANGED <<limVars, storeVars, connVars, proxyVars>>
SpecLimiter == InitLimiter /\ [][NextLimiter]_vars

\* one CONNECT tunnel
notConnect == <<clock, limVars, storeVars, proxyVars, orphans>>
InitConnect ==
    /\ clock = 0 /\ ConnectInit /\ StoreInit /\ LimiterIdle /\ ProxyIdle
    /\ fused = FALSE   \* no Allow() runs here

NextConnect ==
    \/ ReqCancel /\ UNCHANGED notConnect
    \/ ConnDial /\ UNCHANGED notConnect
    \/ ConnHijack /\ UNCHANGED notConnect
    \/ ConnWrite /\ UNCHANGED notConnect
    \/ ConnSpawn /\ UNCHANGED notConnect
    \/ ConnWait /\ UNCHANGED notConnect
    \/ \E d \in Dirs : CopyRelay(d) /\ UNCHANGED notConnect
    \/ \E d \in Dirs : CopyPeerEnd(d) /\ UNCHANGED notConnect
    \/ \E d \in Dirs : CopyClosedEnd(d) /\ UNCHANGED notConnect
    \/ \E d \in Dirs : CopyCancel(d) /\ UNCHANGED notConnect
SpecConnect == InitConnect /\ [][NextConnect]_vars

\* the tunnel with the scheduling the runtime gives: the handler and the
\* copy goroutines take the steps they can take; what the peers do (more
\* bytes, EOF) is left to them
SpecTunnel ==
    /\ InitConnect /\ [][NextConnect]_vars
    /\ WF_vars(ConnWait /\ UNCHANGED notConnect)
    /\ \A d \in Dirs : WF_vars(CopyClosedEnd(d) /\ UNCHANGED notConnect)
    /\ \A d \in Dirs : WF_vars(CopyCancel(d) /\ UNCHANGED notConnect)

\* the dispatcher, the requests of one client connection, one after another,
\* as the host's addresses change; a CONNECT runs its tunnel to the end, and
\* the upstream of a forwarded request answers without header lines or not
\* at all
InitProxy ==
    /\ clock = 0 /\ ProxyInit /\ StoreInit /\ LimiterIdle /\ ConnectIdle
    /\ fused \in BOOLEAN

NextProxy ==
    \/ \E req \in ProxyRequests :
          /\ numReqs < MaxReqs
          /\ HandleProxy(1, req) /\ UNCHANGED <<clock, limVars, sweepOnly>>
    \/ ProxySelect(1) /\ UNCHANGED <<clock, limVars, sweepOnly>>
    \/ GetOrCreateRLock(1) /\ UNCHANGED <<clock, numCalls, sweepOnly, others>>
    \/ GetOrCreateCheck(1) /\ UNCHANGED <<clock, numCalls, sweepOnly, others>>
    \/ GetOrCreateLock(1) /\ UNCHANGED <<clock, numCalls, sweepOnly, others>>
    \/ StoreReturn(1) /\ UNCHANGED <<clock, numCalls, sweepOnly, limVars, connVars,
                                     hsConfig, net, numReqs, fwd>>
    \/ Gate(1) /\ UNCHANGED <<clock, limVars, limiters, mu, frames, numCalls,
                              created, returned, lastHit, sweepOnly,
                              hsConfig, net, numReqs>>
    \/ ConnDial /\ UNCHANGED notConnect
    \/ ConnHijack /\ UNCHANGED notConnect
    \/ ConnWrite /\ UNCHANGED notConnect
    \/ ConnSpawn /\ UNCHANGED notConnect
    \/ ConnWait /\ UNCHANGED notConnect
    \/ ReqCancel /\ UNCHANGED notConnect
    \/ \E d \in Dirs : CopyRelay(d) /\ UNCHANGED notConnect
    \/ \E d \in Dirs : CopyPeerEnd(d) /\ UNCHANGED notConnect
    \/ \E d \in Dirs : CopyClosedEnd(d) /\ UNCHANGED notConnect
    \/ \E d \in Dirs : CopyCancel(d) /\ UNCHANGED notConnect
    \/ \E d \in Dirs : OrphanClosedEnd(d)
          /\ UNCHANGED <<clock, limVars, storeVars, proxyVars>>
    \/ \E d \in Dirs : OrphanCancel(d)
          /\ UNCHANGED <<clock, limVars, storeVars, proxyVars>>
    \/ ForwardStrip /\ UNCHANGED notForward
    \/ ForwardFail /\ UNCHANGED notForward
    \/ ForwardRespond /\ UNCHANGED notForward
    \/ ProxyReturn(1) /\ UNCHANGED <<clock, limVars, storeVars, connVars,
                                     hsConfig, net, numReqs, allowLog, fwd>>
    \/ NetChange /\ UNCHANGED <<clock, limVars, storeVars, connVars>>
SpecProxy == InitProxy /\ [][NextProxy]_vars

\* the dispatcher under rate-limited requests from NumProcs clients at once,
\* as time passes; of the requests in progress at one time, at most one is
\* a CONNECT and at most one is forwarded, and the goroutines being alike,
\* a request that meets no other request in progress is served by the first
InitGate ==
    /\ clock = 0 /\ StoreInit /\ LimiterIdle /\ ConnectIdle
    /\ fused \in BOOLEAN
    /\ hsConfig = TheConfig
    /\ net = NetUp
    /\ numReqs = 0 /\ last = [p \in Procs |-> NoLast] /\ allowLog = <<>>
    /\ fwd = ForwardIdle

NextGate ==
    \/ \E p \in Procs, req \in GatedRequests :
          /\ numReqs < MaxGated
          /\ p = 1 \/ last[1].pc # "idle"
          /\ \A q \in Procs \ {p} :
                last[q].pc # "idle" => last[q].req.method # req.method
          /\ HandleProxy(p, req) /\ UNCHANGED <<clock, limVars, sweepOnly>>
    \/ \E p \in Procs : ProxySelect(p) /\ UNCHANGED <<clock, limVars, sweepOnly>>
    \/ \E p \in Procs : GetOrCreateRLock(p) /\ UNCHANGED <<clock, numCalls, sweepOnly, others>>
    \/ \E p \in Procs : GetOrCreateCheck(p) /\ UNCHANGED <<clock, numCalls, sweepOnly, others>>
    \/ \E p \in Procs : GetOrCreateLock(p) /\ UNCHANGED <<clock, numCalls, sweepOnly, others>>
    \/ \E p \in Procs : StoreReturn(p) /\ UNCHANGED <<clock, numCalls, sweepOnly, limVars, connVars,
                                     hsConfig, net, numReqs, fwd>>
    \/ \E p \in Procs : Gate(p) /\ UNCHANGED <<clock, limVars, limiters, mu, frames, numCalls,
                              created, returned, lastHit, sweepOnly,
                              hsConfig, net, numReqs>>
    \/ ConnDial /\ UNCHANGED notConnect
    \/ ConnHijack /\ UNCHANGED notConnect
    \/ ForwardStrip /\ UNCHANGED notForward
    \/ ForwardFail /\ UNCHANGED notForward
    \/ ForwardRespond /\ UNCHANGED notForward
    \/ \E p \in Procs : ProxyReturn(p) /\ UNCHANGED <<clock, limVars, storeVars, connVars,
                                     hsConfig, net, numReqs, allowLog, fwd>>
    \/ /\ clock < MaxGateTime /\ clock' = clock + 1
       /\ UNCHANGED <<limVars, storeVars, connVars, proxyVars>>
SpecGate == InitGate /\ [][NextGate]_vars

\* the dispatcher under every shape of directive, one request after
\* another, as time passes
NextDirective ==
    \/ \E req \in DirectiveRequests :
          /\ numReqs < MaxReqs
          /\ HandleProxy(1, req) /\ UNCHANGED <<clock, limVars, sweepOnly>>
    \/ ProxySelect(1) /\ UNCHANGED <<clock, limVars, sweepOnly>>
    \/ GetOrCreateRLock(1) /\ UNCHANGED <<clock, numCalls, sweepOnly, others>>
    \/ GetOrCreateCheck(1) /\ UNCHANGED <<clock, numCalls, sweepOnly, others>>
    \/ GetOrCreateLock(1) /\ UNCHANGED <<clock, numCalls, sweepOnly, others>>
    \/ StoreReturn(1) /\ UNCHANGED <<clock, numCalls, sweepOnly, limVars, connVars,
                                     hsConfig, net, numReqs, fwd>>
    \/ Gate(1) /\ UNCHANGED <<clock, limVars, limiters, mu, frames, numCalls,
                              created, returned, lastHit, sweepOnly,
                              hsConfig, net, numReqs>>
    \/ ConnDial /\ UNCHANGED notConnect
    \/ ConnHijack /\ UNCHANGED notConnect
    \/ ForwardStrip /\ UNCHANGED notForward
    \/ ForwardFail /\ UNCHANGED notForward
    \/ ForwardRespond /\ UNCHANGED notForward
    \/ ProxyReturn(1) /\ UNCHANGED <<clock, limVars, storeVars, connVars,
                                     hsConfig, net, numReqs, allowLog, fwd>>
    \/ /\ clock < MaxGateTime /\ clock' = clock + 1
       /\ UNCHANGED <<limVars, storeVars, connVars, proxyVars>>
SpecDirective == InitGate /\ [][NextDirective]_vars

(***************************************************************************)
(* The claims.                                                             *)
(***************************************************************************)

\* C1 (Spec): for every key no sweep has evicted, however the GetOrCreate
\* calls for it interleave, at most one limiter is constructed and inserted,
\* and every call that has returned for the key returned that one limiter,
\* which the store still maps the key to.
C1_OneLimiterPerKey ==
    \A k \in DOMAIN created :
        k \notin evicted =>
            /\ created[k] = 1
            /\ k \in DOMAIN limiters /\ limiters[k].limiter = <<k, 1>>
            /\ \A r \in returned : r[1] = k => r[2] = <<k, 1>>

\* two calls raced on a key the store did not hold: both missed under the
\* read lock, one constructed the limiter and the other joined it
C1_Witness ==
    \E k \in DOMAIN created :
        /\ k \notin evicted
        /\ \E r \in returned : r[1] = k /\ r[2] = <<k, 1>> /\ r[3] = "created"
        /\ \E r \in returned : r[1] = k /\ r[2] = <<k, 1>> /\ r[3] = "joined"

\* C2 (Spec): TTL is sliding.  When a GetOrCreate call that read the clock
\* at time a found the entry with a - lastUsed <= ttl, no sweep whose clock
\* reading is before a + ttl removes the entry.
C2_SlidingTTL ==
    [][\A k \in DOMAIN limiters :
          (k \notin DOMAIN limiters' /\ k \in DOMAIN lastHit)
              => sweep.now >= lastHit[k] + limiters[k].ttl]_vars

\* C3 (Spec): when the range of one sweep ends, the map holds exactly the
\* entries it held when the sweep took the lock for which
\* now - lastUsed > ttl does not hold, each with its limiter, lastUsed and
\* ttl as they were.
C3_SweepRemovesExactlyExpired ==
    (sweep.pc = "range" /\ sweep.todo = {})
        => limiters =
             [k \in {x \in DOMAIN sweep.before :
                        ~(sweep.now - sweep.before[x].lastUsed
                              > sweep.before[x].ttl)}
                |-> sweep.before[k]]

\* a sweep has ended that removed one entry and kept another
C3_Witness ==
    /\ sweep.pc = "range" /\ sweep.todo = {}
    /\ \E k \in DOMAIN sweep.before : k \notin DOMAIN limiters
    /\ \E k \in DOMAIN sweep.before : k \in DOMAIN limiters

\* C4 as claimed (SpecConnect): whenever handleConnect has returned after
\* starting the copies, neither copy task is still running.
C4_ReturnsAfterBothCopies ==
    (conn.pc = "returned" /\ conn.spawned)
        => \A d \in Dirs : copies[d].pc = "done"

\* C4 as amended (SpecConnect): whenever handleConnect has returned after
\* starting the copies, a copy task has finished and cancelled the shared
\* context, or the request's context was cancelled before the copies
\* started.
C4_ReturnsAfterOneCopyOrCancel ==
    (conn.pc = "returned" /\ conn.spawned)
        => \/ \E d \in Dirs : copies[d].pc = "done"
           \/ conn.reqCtx = "cancelled"

\* the handler has returned on the cancel() of one copy task while the
\* other one is still in io.Copy
C4_Witness ==
    /\ conn.pc = "returned" /\ conn.spawned /\ conn.reqCtx = "live"
    /\ \E d \in Dirs : copies[d].pc = "done"
    /\ \E d \in Dirs : copies[d].pc = "running"

\* C5 (SpecConnect): when handleConnect has returned on a path after the
\* dial succeeded, the destination connection is closed, and so is the
\* client connection if it was hijacked.
C5_ConnectionsClosedOnReturn ==
    (conn.pc = "returned" /\ conn.targetConn # "none")
        => /\ conn.targetConn = "closed"
           /\ conn.clientConn \in {"none", "closed"}

\* the handler has returned from the streaming phase with both raw
\* connections closed
C5_Witness ==
    /\ conn.pc = "returned" /\ conn.spawned
    /\ conn.targetConn = "closed" /\ conn.clientConn = "closed"
    /\ \E d \in Dirs : copies[d].relayed > 0

\* C6 (SpecGate): of the requests that share egress IP, resource key and a
\* directive of rate r, and so one limiter, those that arrive while the
\* clock still reads the limiter's time of creation fare as follows: the
\* first r pass the gate and reach handleConnect or handleHTTPProxy; every
\* later one is answered 429 with X-RateLimit-Source: specificproxy and
\* reaches no handler.
C6_FirstRateRequestsPass ==
    \A id \in DOMAIN allowLog :
        LET a == allowLog[id]
        IN  (a.cfg.Rate > 0 /\ a.cfg.Period > 0)
              => \A i \in 1 .. Len(a.res) :
                    a.res[i].at = a.born
                      => IF i <= a.cfg.Rate
                         THEN /\ a.res[i].status = 0
                              /\ a.res[i].dispatched \in {"connect", "forward"}
                         ELSE /\ a.res[i].status = 429
                              /\ a.res[i].source = "specificproxy"
                              /\ a.res[i].dispatched = "none"

\* three requests came at one instant for a limiter of rate 2: a CONNECT
\* and a forward request passed, the third was answered 429
C6_Witness ==
    \E id \in DOMAIN allowLog :
        LET a == allowLog[id]
        IN  /\ a.cfg.Rate = 2 /\ Len(a.res) = 3
            /\ \A i \in 1 .. 3 : a.res[i].at = a.born
            /\ {a.res[1].dispatched, a.res[2].dispatched} = {"connect", "forward"}
            /\ a.res[3].status = 429 /\ a.res[3].source = "specificproxy"
            /\ \E p \in Procs :
                  /\ last[p].limiter = id
                  /\ last[p].status = 429 /\ last[p].dispatched = "none"

\* C7 (SpecProxy): every request whose X-Egress-IP header is present and
\* does not parse as an IP address is, once handleProxy has settled its
\* egress address, answered 400 and reaches no handler (the server runs
\* with the configuration main() loaded).
C7_UnparseableEgressIs400 ==
    \A p \in Procs :
        (/\ last[p].pc # "select"
         /\ last[p].req.egress # "" /\ ParseIP(last[p].req.egress) = NilIP)
            => last[p].status = 400 /\ last[p].dispatched = "none"

\* C8 (SpecProxy): a request whose X-Egress-IP parses as an IP address that
\* IsIPAllowed rejects (on the interfaces net.Interfaces() returned and the
\* addresses they carry at Addrs()) is answered 403, reaches no handler
\* (nothing is dialed, no round trip is made) and leaves the limiter store
\* as it was.
C8_ForbiddenEgressStops ==
    [][\A p \in Procs :
         (/\ last[p].pc = "select" /\ last'[p] # last[p]
          /\ last'[p].req.egress # ""
          /\ ParseIP(last'[p].req.egress) # NilIP
          /\ hsConfig.loaded
          /\ ~IsIPAllowed(hsConfig, last[p].ifs, net, last'[p].req.egress))
            => /\ last'[p].status = 403
               /\ last'[p].pc = "idle"
               /\ last'[p].dispatched = "none"
               /\ last'[p].limiter = NoEntry
               /\ UNCHANGED <<limiters, objs, created, allowLog, frames,
                              conn, copies, orphans, fwd>>]_vars

\* a request that names an address of an interface that is not allowed, and
\* carries a well-formed rate-limit directive, has been answered 403
C8_Witness ==
    \E p \in Procs :
        /\ last[p].req.egress = "10.0.0.9" /\ last[p].req.rl.wf
        /\ hsConfig.loaded
        /\ ~IsIPAllowed(hsConfig, Interfaces(net), net, last[p].req.egress)
        /\ last[p].pc = "idle"
        /\ last[p].status = 403 /\ last[p].dispatched = "none"
        /\ limiters = <<>>

\* C9 as claimed (SpecProxy): a request without X-Egress-IP fails with 503
\* (ServiceUnavailable) and reaches no handler when the list of permitted
\* addresses (what GetAvailableIPs returns from its two readings of the
\* host) is empty or cannot be obtained; otherwise the chosen egress
\* address is a member of that list.
C9_NoListIsServiceUnavailable ==
    [][\A p \in Procs :
         (last[p].pc = "select" /\ last'[p] # last[p] /\ last'[p].req.egress = "")
            => LET r == GetAvailableIPs(hsConfig, last[p].ifs, net)
               IN  IF r.err \/ r.ips = {}
                   THEN last'[p].status = 503 /\ last'[p].dispatched = "none"
                   ELSE last'[p].egressIP \in {i.IP : i \in r.ips}]_vars

\* C9 as amended (SpecProxy): a request without X-Egress-IP fails with 500
\* (InternalServerError) and reaches no handler when the list of permitted
\* addresses (what GetAvailableIPs returns from its two readings of the
\* host) is empty or cannot be obtained; otherwise the chosen egress
\* address is a member of that list, and the address a handler is given.
C9_NoListIsInternalServerError ==
    [][\A p \in Procs :
         (last[p].pc = "select" /\ last'[p] # last[p] /\ last'[p].req.egress = "")
            => LET r == GetAvailableIPs(hsConfig, last[p].ifs, net)
               IN  IF r.err \/ r.ips = {}
                   THEN /\ last'[p].status = 500 /\ last'[p].dispatched = "none"
                        /\ last'[p].pc = "idle"
                   ELSE /\ last'[p].egressIP \in {i.IP : i \in r.ips}
                        /\ last'[p].dispatched # "none"
                             => last'[p].localIP = last'[p].egressIP]_vars

\* a request without X-Egress-IP met an allowed interface with no usable
\* address and was answered 500; the request before it had been given an
\* address and a limiter
C9_Witness ==
    \E p \in Procs :
        /\ last[p].req.egress = "" /\ hsConfig.loaded
        /\ ~GetAvailableIPs(hsConfig, Interfaces(net), net).err
        /\ GetAvailableIPs(hsConfig, Interfaces(net), net).ips = {}
        /\ last[p].pc = "idle"
        /\ last[p].status = 500 /\ last[p].dispatched = "none"
        /\ numReqs = 2 /\ limiters # <<>>

\* C10 (SpecLimiter): for every rate r > 0 and period p > 0, a token bucket
\* created at time 0 and called while the clock still reads 0 answers true to
\* each of its first r Allow() calls and false to the (r+1)-th.
C10_FreshBucketAllowsExactlyRate ==
    (lim.kind = "token_bucket" /\ lim.rate > 0 /\ lim.period > 0)
        => \A i \in 1 .. Len(limLog) :
              (limLog[i].at = 0 /\ i <= lim.rate + 1)
                  => (limLog[i].ok <=> i <= lim.rate)

\* a bucket of rate 2 or more has answered its (r+1)-th call at time 0
C10_Witness ==
    /\ lim.kind = "token_bucket" /\ lim.rate >= 2 /\ lim.period >= 2
    /\ Len(limLog) = lim.rate + 1
    /\ limLog[lim.rate + 1].at = 0
    /\ \A i \in 1 .. lim.rate : limLog[i].ok
    /\ ~limLog[lim.rate + 1].ok

\* C11 (SpecLimiter): once a token bucket of rate r > 0 and period p > 0 has
\* denied a call, a call made period/rate seconds or more after that denial
\* is allowed, also when the calls in between were all denied.
C11_RefillAfterExhaustion ==
    (lim.kind = "token_bucket" /\ lim.rate > 0 /\ lim.period > 0)
        => \A i \in 1 .. Len(limLog), j \in 1 .. Len(limLog) :
              (/\ i < j
               /\ \A k \in i .. j - 1 : ~limLog[k].ok
               /\ (limLog[j].at - limLog[i].at) * lim.rate >= lim.period)
                  => limLog[j].ok

\* C12 (SpecLimiter): for a fixed window of rate r > 0 and period p > 0,
\* (1) of the calls that fall in one window the first r are allowed and all
\* later ones denied, in the first window and in every later one; (2)
\* 0 <= count <= maxRequests at all times; (3) a step starts a new window
\* (windowStart = now, count counted from 0 again) if and only if it is an
\* Allow() call that has read a clock with now - windowStart >= windowPeriod.
C12_FixedWindowCounts ==
    /\ [](  (lim.kind = "fixed_window" /\ lim.maxRequests > 0
                /\ lim.windowPeriod > 0)
            => /\ lim.count >= 0 /\ lim.count <= lim.maxRequests
               /\ \A i \in 1 .. Len(limLog) :
                     limLog[i].ok <=>
                        Cardinality({j \in 1 .. i : limLog[j].win = limLog[i].win})
                            <= lim.maxRequests)
    /\ [][(lim.kind = "fixed_window" /\ lim.maxRequests > 0
              /\ lim.windowPeriod > 0)
            => IF /\ Len(limLog') = Len(limLog) + 1
                  /\ limLog'[Len(limLog')].at - lim.windowStart >= lim.windowPeriod
               THEN /\ lim'.windowStart = limLog'[Len(limLog')].at
                    /\ lim'.count = 1
                    /\ limLog'[Len(limLog')].ok
               ELSE /\ lim'.windowStart = lim.windowStart
                    /\ lim'.count >= lim.count]_vars

\* a fixed window of rate 1 allowed one call and denied the next, and in
\* the window after it again allowed one call and denied the next
C12_Witness ==
    /\ lim.kind = "fixed_window" /\ lim.maxRequests = 1 /\ lim.windowPeriod >= 2
    /\ Len(limLog) = 4
    /\ limLog[1].ok /\ ~limLog[2].ok /\ limLog[3].ok /\ ~limLog[4].ok
    /\ limLog[2].win = 0 /\ limLog[2].at > 0
    /\ limLog[3].win = limLog[3].at /\ limLog[4].win = limLog[3].win
    /\ lim.count = 1


\* C13 (SpecKeys): with no eviction, two GetOrCreate calls return the same
\* limiter instance exactly when their (egress, resource key, method, rate,
\* period) are all equal.
C13_SameInstanceIffSameComponents ==
    \A r1 \in returned, r2 \in returned :
        (r1[2] = r2[2]) <=> (r1[4] = r2[4])


\* C14 (SpecDirective): a request that passed the egress checks and whose
\* X-Rate-Limit header is malformed or has rate <= 0 or period <= 0 is
\* answered 400, reaches no limiter and no handler; and every directive a
\* limiter was made for has rate > 0 and period > 0.
C14_InvalidDirectiveIs400 ==
    /\ \A p \in Procs :
          (/\ last[p].pc # "select"
           /\ last[p].req.rl.present
           /\ last[p].status \notin {StatusForbidden, StatusInternalServerError}
           /\ \/ ~last[p].req.rl.wf
              \/ last[p].req.rl.cfg.Rate <= 0
              \/ last[p].req.rl.cfg.Period <= 0)
             => /\ last[p].status = StatusBadRequest
                /\ last[p].pc = "idle"
                /\ last[p].limiter = NoEntry
                /\ last[p].dispatched = "none"
    /\ \A id \in DOMAIN allowLog :
          allowLog[id].cfg.Rate > 0 /\ allowLog[id].cfg.Period > 0


\* C15 (SpecForward): after removeHopByHopHeaders, the header set written to
\* the client holds no header of the fixed hop-by-hop set and no header
\* named in a value of any Connection line of the response, and holds every
\* other header of the response with its values unchanged.
C15_HopByHopRemoved ==
    (fwd.pc = "returned" /\ fwd.status = StatusOK)
        => LET resp   == fwd.heap["resp.Header"]
               w      == fwd.heap["w.Header()"]
               fixed  == {"Connection", "Keep-Alive", "Proxy-Authenticate",
                          "Proxy-Authorization", "Te", "Trailer",
                          "Transfer-Encoding", "Upgrade"}
               values == IF "Connection" \in DOMAIN resp
                         THEN {resp["Connection"][i] :
                                  i \in 1 .. Len(resp["Connection"])}
                         ELSE {}
               listed == {CanonicalMIMEHeaderKey(ConnectionFields(v)[i]) :
                             <<v, i>> \in {<<x, j>> \in values \X (1 .. 5) :
                                              j <= Len(ConnectionFields(x))}}
           IN  /\ DOMAIN w \subseteq DOMAIN resp
               /\ \A k \in DOMAIN resp :
                     IF k \in fixed \cup listed
                     THEN k \notin DOMAIN w
                     ELSE k \in DOMAIN w /\ w[k] = resp[k]

\* C16 (SpecForward): the request handed to the round trip has none of
\* X-Egress-IP, X-Rate-Limit, Proxy-Connection, Proxy-Authorization, and
\* the inbound request's header map is what the server read.
C16_ProxyHeadersStripped ==
    fwd.pc \in {"roundtrip", "returned"}
        => /\ DOMAIN fwd.sent \cap {"X-Egress-Ip", "X-Rate-Limit",
                                    "Proxy-Connection", "Proxy-Authorization"} = {}
           /\ \A k \in DOMAIN fwd.inbound \ DOMAIN fwd.sent :
                 k \in {"X-Egress-Ip", "X-Rate-Limit", "Proxy-Connection",
                        "Proxy-Authorization"}
           /\ fwd.heap["r.Header"] = fwd.inbound

\* a request that carried all four headers and Accept was handed to the
\* round trip with Accept alone, its own headers still all there
C16_Witness ==
    /\ fwd.pc = "returned" /\ fwd.status = StatusOK
    /\ DOMAIN fwd.inbound = {"X-Egress-Ip", "X-Rate-Limit", "Proxy-Connection",
                             "Proxy-Authorization", "Accept"}
    /\ DOMAIN fwd.sent = {"Accept"}
    /\ fwd.outReq # "r.Header"
    /\ DOMAIN fwd.heap["r.Header"] = DOMAIN fwd.inbound


\* C17 (SpecDirective): the limiter made for a directive is a fixed window
\* when the method is "fixed_window" and a token bucket for every other
\* method text; and a request with a well-formed directive, whatever its
\* method, gets a limiter and is dispatched unless that limiter denies it.
C17_UnknownMethodIsTokenBucket ==
    /\ \A id \in DOMAIN allowLog :
          /\ id \in DOMAIN objs
          /\ objs[id].kind = IF allowLog[id].cfg.Method = "fixed_window"
                             THEN "fixed_window" ELSE "token_bucket"
    /\ \A p \in Procs :
          (last[p].req.rl.present /\ last[p].req.rl.wf)
             => /\ last[p].pc = "allow" => last[p].limiter \in DOMAIN allowLog
                /\ last[p].pc \in {"handler", "idle"} =>
                      /\ last[p].limiter \in DOMAIN allowLog
                      /\ allowLog[last[p].limiter].cfg.Method
                            = last[p].req.rl.cfg.Method
                      /\ IF last[p].allowed
                         THEN last[p].status = 0 /\ last[p].dispatched # "none"
                         ELSE last[p].status = StatusTooManyRequests

\* a request with the empty method and one with an unknown method each got
\* a token bucket of their own, and the second was dispatched
C17_Witness ==
    \E p \in Procs :
        /\ last[p].req.rl.cfg.Method = "sliding_window"
        /\ last[p].dispatched # "none"
        /\ objs[last[p].limiter].kind = "token_bucket"
        /\ \E id \in DOMAIN allowLog :
              /\ allowLog[id].cfg.Method = ""
              /\ objs[id].kind = "token_bucket"
              /\ id # last[p].limiter


\* C18 (SpecStop): once Stop() has closed stopCh, (1) the cleanup loop
\* eventually returns; (2) until then it runs at most the sweep in progress
\* and a sweep for a tick that was already waiting in ticker.C: once stopCh
\* is closed and ticker.C is empty, a tick that arrives later is never
\* taken; it returns only between sweeps, so a sweep in progress runs to
\* its end; (3) once the loop has returned it stays so and no entry leaves
\* the store.
C18_StopEndsTheSweeps ==
    /\ (stopCh = "closed") ~> (loop = "exited")
    /\ []((stopCh = "closed" /\ ~tickPending)
             => [](tickPending => []tickPending))
    /\ [][/\ (loop # "exited" /\ loop' = "exited")
                => (stopCh = "closed" /\ loop = "select" /\ sweep = IdleSweep)
          /\ loop = "exited"
                => /\ loop' = "exited"
                   /\ sweep' = IdleSweep
                   /\ DOMAIN limiters \subseteq DOMAIN limiters'
                   /\ evicted' = evicted]_vars


\* C19 (SpecTunnel): a copy task that has ended has cancelled the shared
\* context, and once the io.Copy of either direction has returned, both
\* copy tasks eventually end and the handler returns.
C19_OtherCopyStops ==
    /\ [](\A d \in Dirs : copies[d].pc = "done" => conn.ctx = "cancelled")
    /\ (\E d \in Dirs : copies[d].pc \in {"copied", "done"})
          ~> (/\ \A d \in Dirs : copies[d].pc = "done"
              /\ conn.pc = "returned")

\* one direction ended on its peer's EOF after relaying, the other had
\* relayed nothing and ended when the handler closed the connections
C19_Witness ==
    /\ conn.pc = "returned" /\ conn.reqCtx = "live"
    /\ conn.clientConn = "closed" /\ conn.targetConn = "closed"
    /\ copies["c2t"].pc = "done" /\ copies["c2t"].relayed = MaxRelay
    /\ copies["t2c"].pc = "done" /\ copies["t2c"].relayed = 0


\* C20 (SpecConnect): the 200 line is written only with the destination
\* dialed and the client connection hijacked, and before a copy task exists
\* or a byte is relayed; copy tasks exist only after the line was written;
\* a failed dial is answered 502 and a missing Hijacker 500, and with either
\* status the line was not written and no copy task was started.
C20_EstablishedBeforeStreaming ==
    /\ [](/\ conn.wrote200
                => conn.targetConn # "none" /\ conn.clientConn # "none"
          /\ (conn.spawned \/ \E d \in Dirs : copies[d] # [pc |-> "none", relayed |-> 0])
                => conn.wrote200
          /\ (conn.pc = "returned" /\ conn.targetConn = "none")
                => conn.status = 502
          /\ (conn.pc = "returned" /\ conn.targetConn # "none" /\ ~conn.hijacker)
                => conn.status = 500
          /\ conn.status \in {500, 502}
                => /\ ~conn.wrote200 /\ ~conn.spawned /\ conn.pc = "returned"
                   /\ \A d \in Dirs : copies[d] = [pc |-> "none", relayed |-> 0])
    /\ [][(~conn.wrote200 /\ conn'.wrote200)
             => /\ conn.targetConn = "open" /\ conn.clientConn = "open"
                /\ ~conn.spawned
                /\ \A d \in Dirs : copies[d] = [pc |-> "none", relayed |-> 0]
                /\ copies' = copies]_vars

\* the destination was dialed but the response writer is no Hijacker: 500,
\* no 200 line, no copy task, the destination connection closed again
C20_Witness ==
    /\ conn.pc = "returned" /\ ~conn.hijacker
    /\ conn.status = 500
    /\ conn.targetConn = "closed" /\ conn.clientConn = "none"
    /\ ~conn.wrote200 /\ ~conn.spawned


\* C21 (SpecDirective): every token bucket the store holds has
\* 0 <= tokens <= maxTokens, after its construction and after every Allow().
C21_TokensWithinBounds ==
    \A id \in DOMAIN objs :
        objs[id].kind = "token_bucket"
            => /\ FGe(objs[id].tokens, FromInt(0))
               /\ FGe(objs[id].maxTokens, objs[id].tokens)


\* C22 (SpecLimiter): Allow() is atomic.  Of the k calls that concurrent
\* callers make at the instant a limiter of rate r > 0 is constructed (its
\* capacity is r and no time elapses), exactly min(k, r) return true, for the
\* token bucket and for the fixed window; and no two callers are inside
\* Allow() at once.
C22_AllowIsAtomic ==
    /\ Cardinality({c \in Callers : limPc[c].pc # "idle"}) <= 1
    /\ (lim.kind \in {"token_bucket", "fixed_window"}
          /\ (IF lim.kind = "token_bucket" THEN lim.rate ELSE lim.maxRequests) > 0
          /\ (IF lim.kind = "token_bucket" THEN lim.period ELSE lim.windowPeriod) > 0)
         => LET r     == IF lim.kind = "token_bucket" THEN lim.rate
                         ELSE lim.maxRequests
                calls == {i \in 1 .. Len(limLog) : limLog[i].at = 0}
                k     == Cardinality(calls)
            IN  Cardinality({i \in calls : limLog[i].ok})
                    = IF k < r THEN k ELSE r

\* both callers have called a fixed window of rate 1 at the instant it was
\* made, one after the other through the mutex: one call passed, and a
\* third call is inside Allow() with the other caller waiting
C22_Witness ==
    /\ lim.kind = "fixed_window" /\ lim.maxRequests = 1 /\ lim.windowPeriod > 0
    /\ clock = 0
    /\ Len(limLog) = 2 /\ limLog[1].ok /\ ~limLog[2].ok
    /\ limPc[1].pc = "read" /\ limPc[2].pc = "idle" /\ limMu = 1


\* C23 (SpecLimiter): a fixed window of rate r > 0 and period p > 0 allows
\* at most 2*r of the calls made within any span of time shorter than p,
\* and at most r of the calls made in one window (between two consecutive
\* resets).
C23_BoundaryBurstAtMostTwice ==
    (lim.kind = "fixed_window" /\ lim.maxRequests > 0 /\ lim.windowPeriod > 0)
        => /\ \A i \in 1 .. Len(limLog), j \in 1 .. Len(limLog) :
                 (i <= j /\ limLog[j].at - limLog[i].at < lim.windowPeriod)
                    => Cardinality({k \in i .. j : limLog[k].ok})
                          <= 2 * lim.maxRequests
           /\ \A i \in 1 .. Len(limLog) :
                 Cardinality({k \in 1 .. Len(limLog) :
                                 limLog[k].ok /\ limLog[k].win = limLog[i].win})
                    <= lim.maxRequests

\* the burst across a window's edge: a fixed window of rate 1 and period 2
\* or more allowed a call in the last second of one window and a call one
\* second later, in the next window, and denied a third call
C23_Witness ==
    /\ lim.kind = "fixed_window" /\ lim.maxRequests = 1 /\ lim.windowPeriod >= 2
    /\ Len(limLog) = 3
    /\ limLog[1].ok /\ limLog[2].ok /\ ~limLog[3].ok
    /\ limLog[1].win = 0 /\ limLog[1].at = lim.windowPeriod - 1
    /\ limLog[2].at = limLog[1].at + 1 /\ limLog[2].win = limLog[2].at
    /\ limLog[3].at = limLog[2].at


\* C24 (Spec): no refresh of lastUsed is lost.  While a key stays mapped to
\* one entry, no step makes the entry's lastUsed smaller; and when every
\* GetOrCreate call has returned, lastUsed is not before the latest time at
\* which a call found the entry.
C24_NoLostRefresh ==
    /\ [][\A k \in DOMAIN limiters \cap DOMAIN limiters' :
             limiters'[k].limiter = limiters[k].limiter
                => limiters'[k].lastUsed >= limiters[k].lastUsed]_vars
    /\ [](\A k \in DOMAIN limiters \cap DOMAIN lastHit :
             (\A p \in Procs : frames[p].pc = "idle")
                => limiters[k].lastUsed >= lastHit[k])


\* C25 (Spec): however GetOrCreate calls and the sweep interleave, the
\* limiter a call returns is the one the store maps the call's key to when
\* the call returns.
C25_ReturnsTheMappedLimiter ==
    [][\A r \in returned' \ returned :
          /\ r[1] \in DOMAIN limiters'
          /\ limiters'[r[1]].limiter = r[2]]_vars


\* C26: the store never deadlocks: under fair scheduling every call of
\* GetOrCreate or Len that has started returns, and every sweep that has
\* started completes, whatever the interleaving of calls for the same key,
\* calls for different keys, Len and the sweeps
C26_StoreNeverDeadlocks ==
    /\ \A p \in Procs : (frames[p].pc # "idle") ~> (frames[p].pc = "idle")
    /\ (sweep.pc # "idle") ~> (sweep.pc = "idle")

\* a sweep waits for the lock that a GetOrCreate call holds for writing,
\* while a call of Len waits behind it
C26_Witness ==
    /\ sweep.pc = "lock"
    /\ mu.writer
    /\ \E p, q \in Procs :
          /\ frames[p].pc \in {"hitwrite", "misscheck"}
          /\ frames[q].pc = "lenrlock"


\* C27: the limiter is keyed by the egress address, not by its spelling:
\* whatever limiter the store holds for an X-Egress-IP text that parses to
\* the address of the request just gated, with that request's resource key
\* and directive, is the limiter instance that gated the request
C27_KeyedByAddressNotSpelling ==
    \A p \in Procs :
      last[p].limiter # NoEntry =>
        LET req  == last[p].req
            cfg  == Unmarshal(req.rl).cfg
            path == IF req.method = "CONNECT" THEN "" ELSE req.path
            rk   == ExtractResourceKey(req.host, path, cfg.Kind)
        IN  \A e \in {r.egress : r \in ProxyRequests} :
                /\ ParseIP(e) # NilIP
                /\ ParseIP(e) = ParseIP(last[p].egressIP)
                /\ buildKey(e, rk, cfg) \in DOMAIN limiters
                => limiters[buildKey(e, rk, cfg)].limiter = last[p].limiter


\* C28 (SpecProxy): a request reaches the tunnel handler or the forwarder
\* only with a local address that, during that request, IsIPAllowed
\* confirmed (X-Egress-IP given) or that was drawn from the list
\* GetAvailableIPs returned (no X-Egress-IP).  When handleProxy settles the
\* egress address of a request it goes on with, the check said yes or the
\* list held the address, on the interfaces net.Interfaces() returned and
\* the addresses they carried at Addrs(); and the handler is called with
\* that address, after the rate limiter as well.
C28_DispatchedEgressIsPermitted ==
    [][\A p \in Procs :
         /\ (last[p].pc = "select" /\ last'[p] # last[p] /\ last'[p].status = 0)
               => \/ /\ last'[p].how = "checked"
                     /\ last'[p].req.egress # ""
                     /\ IsIPAllowed(hsConfig, last[p].ifs, net, last'[p].egressIP)
                  \/ /\ last'[p].how = "listed"
                     /\ last'[p].req.egress = ""
                     /\ last'[p].egressIP \in
                           {i.IP : i \in GetAvailableIPs(hsConfig, last[p].ifs,
                                                         net).ips}
         /\ (last'[p].pc = "handler" /\ last[p].pc # "handler")
               => /\ last'[p].how \in {"checked", "listed"}
                  /\ last'[p].localIP = ParseIP(last'[p].egressIP)
                  /\ last[p].pc = "allow"
                        => /\ last'[p].egressIP = last[p].egressIP
                           /\ last'[p].how = last[p].how]_vars

\* a request without X-Egress-IP was given 10.0.0.2 from the list, passed
\* its rate limiter and was forwarded from that address; the host has lost
\* the address since
C28_Witness ==
    \E p \in Procs :
        /\ last[p].req.egress = "" /\ last[p].how = "listed"
        /\ last[p].allowed
        /\ last[p].dispatched = "forward" /\ fwd.pc = "returned"
        /\ last[p].localIP = "10.0.0.2"
        /\ GetAvailableIPs(hsConfig, Interfaces(net), net).ips = {}

=============================================================================
